---- MODULE Spec2Model ----
(***************************************************************************)
(* A model of the conversational tool-use agent of memory-mcp-agent:       *)
(* the ReAct loop (agents/main_agent.py, react_agent.py), its text         *)
(* protocol parser, and the SerpAPI search fallback chain                   *)
(* (tools/search_with_serp_api.py, tools/web_search.py).                    *)
(*                                                                         *)
(* A Python str is a sequence of one-character strings, so that `in`,      *)
(* split, strip and re.search are computed on characters.  Text produced   *)
(* by string formatting that the program never parses again (observations, *)
(* search results) is the concatenation of its fragments.                  *)
(***************************************************************************)
EXTENDS Integers, Sequences, FiniteSets, TLC

VARIABLES
    \* ---- ReActAgent.run ----
    pc,              \* "idle" | "loop" | "done" | "raised": position in run
    max_iterations,  \* self.max_iterations when run starts
    serpapi_key,     \* whether os.getenv('SERPAPI_KEY') is set
    messages,        \* the transcript: sequence of [role, content]
    i,               \* number of loop iterations completed
    ret,             \* the value run returned (a Python value)
    completions,     \* chat.completions.create calls issued by this run
    calls,           \* tool invocations of this run: sequence of [name, input]
    unknown,         \* cycles answered with the unknown-tool observation
    payload,         \* messages= of the last chat.completions.create call
    \* ---- debug_action_parsing.test_action_parsing ----
    message,         \* the test message, by its parts
    match,           \* what the action regex found in it
    \* ---- _search_with_serpapi ----
    sPc,             \* "idle" | "trying" | "done"
    query,           \* the query the chain was called with
    attempt,         \* index (from 0) of the variation the loop is at
    requests,        \* the 'q' of every requests.get issued, in order
    outcomes,        \* what each request came back with, in order
    sResult,         \* the value the chain returned
    \* ---- verify_result ----
    vPc,             \* "idle" | "searching" | "done"
    sources,         \* what web_search did for each query so far, in order
    report,          \* the value verify_result returned
    vDescription,    \* the description verify_result is called with
    queries,         \* queries of verify_result: what the generator returned
    searched,        \* every web_search call of the loop: [query, source_num]
    result_text,     \* result['result'] of one source: the text the pattern is run on
    numbers,         \* numbers: what re.findall returned for it; NoList before
    \* ---- text_analyzer ----
    ta_text,         \* the text it is called with
    analysis,        \* the statistics it reports
    \* ---- format_chat_history_for_email ----
    chat_history,    \* the list of message dicts it is called with
    formatted,       \* the entries of the text it returns
    \* ---- conversation cache and idle sweeper: utils/helpers.py ----
    now,             \* datetime.now(), in seconds
    conversation_cache, \* the dict, in insertion order: [chat_id, messages, last_message_time]
    saved,           \* every message_dict save_message created; its index is its id
    db,              \* the ids of the ChatMessage rows committed, in order
    swPc,            \* "sleeping" | "scanning" | "awaiting" | "raised": position in check_inactive_chats
    current_time,    \* current_time of the sweep tick
    snapshot,        \* chat ids of list(conversation_cache.items()) not yet examined
    wake,            \* when asyncio.sleep returns
    digests,         \* every history handed to get_ai_summary: [chat_id, entries]
    recipient_email, \* recipient_email of check_inactive_chats: "" for None
    sent,            \* every send_email call of the sweeper: [to, chat_id]
    event,           \* what the sweeper printed last about a session
    stop,            \* whether the process has asked the sweeper to stop
    combined_messages, \* what the last get_chat_history call returned
    reads,           \* get_chat_history calls so far
    \* ---- ReActAgent.tools ----
    tools,           \* self.tools: name -> [function, description]
    last_call,       \* the arguments of the last add_tool call
    \* ---- main.py: the /chat endpoint ----
    chat_requests,   \* the requests sent: [message, max_iterations]
    serving,         \* the request whose handler is running; 0: none
    responses        \* per request, what its handler answered with

runVars == <<pc, max_iterations, serpapi_key, messages, i, ret, completions, calls, unknown,
             payload>>
parseVars == <<message, match>>
searchVars == <<sPc, query, attempt, requests, outcomes, sResult>>
verifyVars == <<vPc, sources, report, vDescription, queries, searched,
                result_text, numbers>>
textVars == <<ta_text, analysis>>
formatVars == <<chat_history, formatted>>
cacheVars == <<now, conversation_cache, saved, db, swPc, current_time, snapshot, wake, digests,
               recipient_email, sent, event, stop, combined_messages, reads>>
registryVars == <<tools, last_call>>
chatVars == <<chat_requests, serving, responses>>
vars == <<runVars, parseVars, searchVars, verifyVars, textVars, formatVars, cacheVars,
          registryVars, chatVars>>

-----------------------------------------------------------------------------
(* Bounds of the model *)

\* the largest iteration bound a run is started with
MaxIter == 3
\* the most spaces put at one place of a generated action line
MaxSpaces == 2

-----------------------------------------------------------------------------
(* Python values and strings *)

PyStr(s) == [t |-> "str", s |-> s]
PyNone == [t |-> "NoneType", s |-> <<>>]
NoValue == [t |-> "unset", s |-> <<>>]

\* str(v) / f"{v}"
Format(v) == IF v.t = "NoneType" THEN <<"None">> ELSE v.s

Min(S) == CHOOSE x \in S : \A y \in S : x <= y
Max(S) == CHOOSE x \in S : \A y \in S : x >= y

Letters ==
    {"a", "b", "c", "d", "e", "f", "g", "h", "i", "j", "k", "l", "m",
     "n", "o", "p", "q", "r", "s", "t", "u", "v", "w", "x", "y", "z",
     "A", "B", "C", "D", "E", "F", "G", "H", "I", "J", "K", "L", "M",
     "N", "O", "P", "Q", "R", "S", "T", "U", "V", "W", "X", "Y", "Z"}
Digits == {"0", "1", "2", "3", "4", "5", "6", "7", "8", "9"}

\* the regex class \s and the characters str.strip() removes
IsSpace(c) == c \in {" ", "\t", "\n", "\r", "\f"}
\* the regex class \w
IsWord(c) == c \in Letters \cup Digits \cup {"_"}
\* the regex class . (no DOTALL)
IsDot(c) == c # "\n"

\* s[p:].startswith(pat)
StartsWithAt(s, p, pat) ==
    /\ p >= 1
    /\ p + Len(pat) - 1 <= Len(s)
    /\ \A k \in 1..Len(pat) : s[p + k - 1] = pat[k]

\* pat in s
Contains(s, pat) == \E p \in 1..(Len(s) + 1) : StartsWithAt(s, p, pat)

\* s.find(pat) + 1: the first place pat occurs at, 0 when it does not occur
Find(s, pat) ==
    LET hits == {p \in 1..(Len(s) + 1) : StartsWithAt(s, p, pat)}
    IN  IF hits = {} THEN 0 ELSE Min(hits)

\* s.split(sep): the pieces between the occurrences of sep, left to right
RECURSIVE Split(_, _)
Split(s, sep) ==
    LET p == Find(s, sep)
    IN  IF p = 0
        THEN <<s>>
        ELSE <<SubSeq(s, 1, p - 1)>> \o Split(SubSeq(s, p + Len(sep), Len(s)), sep)

\* sep.join(parts)
RECURSIVE Join(_, _)
Join(parts, sep) ==
    IF Len(parts) = 0 THEN <<>>
    ELSE IF Len(parts) = 1 THEN parts[1]
    ELSE parts[1] \o sep \o Join(Tail(parts), sep)

\* s.replace(old, new)
Replace(s, old, new) == Join(Split(s, old), new)

\* s.strip()
Strip(s) ==
    LET keep == {p \in 1..Len(s) : ~IsSpace(s[p])}
    IN  IF keep = {} THEN <<>> ELSE SubSeq(s, Min(keep), Max(keep))

\* text.split(): the runs of characters between runs of whitespace
RECURSIVE SplitWhitespace(_)
SplitWhitespace(s) ==
    LET starts == {p \in 1..Len(s) : ~IsSpace(s[p])}
    IN  IF starts = {} THEN <<>>
        ELSE LET b == Min(starts)
                 e == Min({q \in b..(Len(s) + 1) : q = Len(s) + 1 \/ IsSpace(s[q])})
             IN  <<SubSeq(s, b, e - 1)>> \o SplitWhitespace(SubSeq(s, e, Len(s)))

\* the end (exclusive) of the longest run of characters of class C from p on
InClass(c, class) ==
    CASE class = "\\s" -> IsSpace(c)
      [] class = "\\w" -> IsWord(c)
      [] OTHER -> IsDot(c)

SpanEnd(s, p, class) ==
    Min({q \in p..(Len(s) + 1) : q = Len(s) + 1 \/ ~InClass(s[q], class)})

Spaces(n) == [k \in 1..n |-> " "]

FINAL_MARK ==
    <<"F", "i", "n", "a", "l", " ", "A", "n", "s", "w", "e", "r", ":">>
ACTION_MARK ==
    <<"A", "c", "t", "i", "o", "n", ":">>
THOUGHT_MARK ==
    <<"T", "h", "o", "u", "g", "h", "t", ":">>
T_calculator ==
    <<"c", "a", "l", "c", "u", "l", "a", "t", "o", "r">>
T_web_search ==
    <<"w", "e", "b", "_", "s", "e", "a", "r", "c", "h">>
T_text_analyzer ==
    <<"t", "e", "x", "t", "_", "a", "n", "a", "l", "y", "z", "e", "r">>
T_verify_result ==
    <<"v", "e", "r", "i", "f", "y", "_", "r", "e", "s", "u", "l", "t">>
\* a tool name no agent registers
T_lookup ==
    <<"l", "o", "o", "k", "u", "p">>

-----------------------------------------------------------------------------
(* The protocol parser: re.search(r"Action:\s*(\w+):\s*(.+)", text) *)

NoMatch == [ok |-> FALSE, name |-> <<>>, input |-> <<>>]

(* The regex tried at place p.  \s* and \w+ are greedy runs of disjoint     *)
(* classes, and \w+ must be followed by ':', so each takes its whole run.   *)
(* The second \s* also takes its whole run, but gives characters back, one  *)
(* at a time, until (.+) finds a character that is not a newline to start   *)
(* at; (.+) then runs to the end of that line.                              *)
MatchActionAt(s, p) ==
    LET b == SpanEnd(s, p + Len(ACTION_MARK), "\\s")
        c == SpanEnd(s, b, "\\w")
        e == SpanEnd(s, c + 1, "\\s")
        starts == {q \in (c + 1)..Len(s) : q <= e /\ IsDot(s[q])}
        g == Max(starts)
    IN  IF /\ StartsWithAt(s, p, ACTION_MARK)
           /\ c > b
           /\ c <= Len(s)
           /\ s[c] = ":"
           /\ starts # {}
        THEN [ok |-> TRUE,
              name |-> SubSeq(s, b, c - 1),
              input |-> SubSeq(s, g, SpanEnd(s, g, ".") - 1)]
        ELSE NoMatch

\* re.search: the match at the leftmost place that has one
ReSearchAction(s) ==
    LET ps == {p \in 1..Len(s) : MatchActionAt(s, p).ok}
    IN  IF ps = {} THEN NoMatch ELSE MatchActionAt(s, Min(ps))

\* action_match, tool_name = group(1), tool_input = group(2).strip()
ParseAction(text) ==
    LET m == ReSearchAction(text)
    IN  [found |-> m.ok, tool_name |-> m.name, tool_input |-> Strip(m.input)]

-----------------------------------------------------------------------------
(* The search fallback chain: tools/search_with_serp_api.py *)

\* max_retries: int = 3
MAX_RETRIES == 3
\* len(result['snippet'].strip()) > 20
SNIPPET_LEN == 20

DIRECT_ANSWER ==
    <<"D", "i", "r", "e", "c", "t", " ", "a", "n", "s", "w", "e", "r", ":", " ">>
ANSWER ==
    <<"A", "n", "s", "w", "e", "r", ":", " ">>
INFO ==
    <<"I", "n", "f", "o", ":", " ">>
SEARCH_RESULTS ==
    <<"S", "e", "a", "r", "c", "h", " ", "r", "e", "s", "u", "l", "t", "s", ":", "\n">>
\* "* " stands for the bullet character and the space after it
BULLET ==
    <<"*", " ">>
NO_KEY ==
    <<"N", "o", " ", "S", "e", "r", "p", "A", "P", "I", " ", "k", "e", "y", " ",
      "f", "o", "u", "n", "d">>
SEARCH_FAILED ==
    <<"S", "e", "a", "r", "c", "h", " ", "f", "a", "i", "l", "e", "d">>
SUF_definition ==
    <<" ", "d", "e", "f", "i", "n", "i", "t", "i", "o", "n">>
PRE_what_is ==
    <<"w", "h", "a", "t", " ", "i", "s", " ">>
SUF_explained ==
    <<" ", "e", "x", "p", "l", "a", "i", "n", "e", "d">>
POWER_OF ==
    <<"p", "o", "w", "e", "r", " ", "o", "f">>
THRUST ==
    <<"t", "h", "r", "u", "s", "t">>
POWER ==
    <<"p", "o", "w", "e", "r">>
SPECIFICATIONS ==
    <<"s", "p", "e", "c", "i", "f", "i", "c", "a", "t", "i", "o", "n", "s">>

\* query_variations
QueryVariations(q) ==
    << q,
       q \o SUF_definition,
       PRE_what_is \o q,
       q \o SUF_explained,
       Replace(Replace(q, POWER_OF, THRUST), POWER, SPECIFICATIONS) >>

\* a slice that is one variation short
AttemptedFewer(q) == SubSeq(QueryVariations(q), 1, MAX_RETRIES - 1)

\* query_variations[:max_retries]
Attempted(q) == SubSeq(QueryVariations(q), 1, MAX_RETRIES)

\* a key a dict does not have
Missing == [t |-> "missing", s |-> <<>>]
Has(v) == v.t # "missing"

\* >= in place of >
SnippetKeptAtLeast(snippet) == Len(Strip(snippet.s)) >= SNIPPET_LEN

\* organic snippets long enough to be kept
SnippetKept(snippet) == Len(Strip(snippet.s)) > SNIPPET_LEN

\* results: "* " + snippet of the first two organic results that have a kept one
RECURSIVE OrganicLines(_)
OrganicLines(items) ==
    IF items = <<>> THEN <<>>
    ELSE (IF Has(items[1].snippet) /\ SnippetKept(items[1].snippet)
          THEN <<BULLET \o items[1].snippet.s>> ELSE <<>>)
         \o OrganicLines(Tail(items))

FirstTwo(items) == SubSeq(items, 1, IF Len(items) < 2 THEN Len(items) ELSE 2)

\* What one decoded response makes the chain return; NoValue: nothing, the
\* loop goes on to the next variation.
InspectResponse(data) ==
    LET ab == data.answer_box
        kg == data.knowledge_graph
        org == data.organic_results
        results == OrganicLines(FirstTwo(org.items))
    IN  IF ab.present /\ Has(ab.answer)
        THEN PyStr(DIRECT_ANSWER \o ab.answer.s)
        ELSE IF ab.present /\ Has(ab.snippet)
        THEN PyStr(ANSWER \o ab.snippet.s)
        ELSE IF kg.present /\ Has(kg.description)
        THEN PyStr(INFO \o kg.description.s)
        ELSE IF org.present /\ Len(org.items) > 0 /\ results # <<>>
        THEN PyStr(SEARCH_RESULTS \o Join(results, <<"\n">>))
        ELSE NoValue

\* return None
ChainExhausted == PyNone

-----------------------------------------------------------------------------
(* The tools: each returns [exc, val]: whether an exception leaves the tool, *)
(* and the value it returns otherwise.                                      *)

Returns(v) == [exc |-> FALSE, val |-> v]
Raises == [exc |-> TRUE, val |-> NoValue]

ERROR_PREFIX ==
    <<"E", "r", "r", "o", "r", ":", " ">>
E_syntax ==
    <<"i", "n", "v", "a", "l", "i", "d", " ", "s", "y", "n", "t", "a", "x",
      " ", "(", "<", "s", "t", "r", "i", "n", "g", ">", ",", " ", "l", "i",
      "n", "e", " ", "1", ")">>
\* expressions given to the calculator
IN_2plus3 == <<"2", " ", "+", " ", "3">>
IN_class_name ==
    <<"(", ")", ".", "_", "_", "c", "l", "a", "s", "s", "_", "_", ".", "_",
      "_", "n", "a", "m", "e", "_", "_">>
IN_import_os ==
    <<"i", "m", "p", "o", "r", "t", " ", "o", "s">>
IN_throw ==
    <<"(", "x", " ", "f", "o", "r", " ", "x", " ", "i", "n", " ", "(", ")",
      ")", ".", "t", "h", "r", "o", "w", "(", "[", "c", " ", "f", "o", "r",
      " ", "c", " ", "i", "n", " ", "(", ")", ".", "_", "_", "c", "l", "a",
      "s", "s", "_", "_", ".", "_", "_", "b", "a", "s", "e", "_", "_", ".",
      "_", "_", "s", "u", "b", "c", "l", "a", "s", "s", "e", "s", "_", "_",
      "(", ")", " ", "i", "f", " ", "c", ".", "_", "_", "n", "a", "m", "e",
      "_", "_", " ", "=", "=", " ", "'", "B", "a", "s", "e", "E", "x", "c",
      "e", "p", "t", "i", "o", "n", "'", "]", "[", "0", "]", ")">>
V_5 ==
    <<"5">>
V_tuple ==
    <<"t", "u", "p", "l", "e">>
A_42 ==
    <<"4", "2">>

\* self.tools after _register_default_tools
Tools == {T_calculator, T_web_search, T_text_analyzer, T_verify_result}

\* What eval(expression, allowed_names) may do: a value; an exception of
\* class Exception (a syntax error, an unknown name, ...); or an exception
\* outside Exception (SystemExit, BaseException), which an expression can
\* reach from a literal's attributes although __builtins__ is empty
EvalOutcomes ==
    {[kind |-> "value", text |-> V_5],
     [kind |-> "Exception", text |-> E_syntax],
     [kind |-> "BaseException", text |-> <<>>]}

\* eval(expression, allowed_names) for the expressions of this model
Eval(expression) ==
    CASE expression = IN_2plus3 -> {[kind |-> "value", text |-> V_5]}
      [] expression = IN_import_os -> {[kind |-> "Exception", text |-> E_syntax]}
      [] expression = IN_throw -> {[kind |-> "BaseException", text |-> <<>>]}
      [] expression = IN_class_name -> {[kind |-> "value", text |-> V_tuple]}
      [] OTHER -> EvalOutcomes

\* calculator: str(result), or the exception caught by `except Exception` as
\* "Error: <message>"; any other exception leaves the tool
Calculator(ev) ==
    IF ev.kind = "value" THEN Returns(PyStr(ev.text))
    ELSE IF ev.kind = "Exception" THEN Returns(PyStr(ERROR_PREFIX \o ev.text))
    ELSE Raises

\* text_analyzer: the report (its statistics lines are not spelled out here)
TextAnalyzer(text) ==
    Returns(PyStr(<<"Text Analysis Results:\n", "- Text starts with: \"">>
                  \o text \o <<"\"\n">>))

\* web_search: the chain with a key, the no-provider text without
WebSearch(key, chain) ==
    IF key THEN Returns(chain) ELSE Returns(PyStr(NO_KEY))

\* the characters [\d,] of the number pattern
IsNumberChar(c) == c \in Digits \cup {","}

\* re.findall(r'[\d,]+\.?\d*', s): from the first digit or comma on, the
\* run of digits and commas, a full stop if one follows, and the digits
\* after it; then on from the end of that match
RECURSIVE FindNumbers(_)
FindNumbers(s) ==
    LET starts == {p \in 1..Len(s) : IsNumberChar(s[p])}
    IN  IF starts = {} THEN <<>>
        ELSE LET begin == Min(starts)
                 group == Min({q \in (begin + 1)..(Len(s) + 1) :
                                  q = Len(s) + 1 \/ ~IsNumberChar(s[q])})
                 point == IF group <= Len(s) /\ s[group] = "." THEN group + 1 ELSE group
                 end == Min({q \in point..(Len(s) + 1) :
                                q = Len(s) + 1 \/ s[q] \notin Digits})
             IN  <<SubSeq(s, begin, end - 1)>> \o FindNumbers(SubSeq(s, end, Len(s)))

\* result['result'][:200] + "..." if len(result['result']) > 200
EXCERPT_LEN == 200
Excerpt(s) ==
    IF Len(s) > EXCERPT_LEN THEN SubSeq(s, 1, EXCERPT_LEN) \o <<"...">> ELSE s

\* str(result['source_num'])
SourceNumber(k) == <<"1", "2", "3", "4">>[k]

\* the section of one source (the query is left out of its header line):
\* with a result that does not hold "Search failed", the first numbers
\* found in it, if any, and its excerpt; otherwise the failure text
SourceSection(result, k) ==
    <<"Source ", SourceNumber(k), ":\n">>
    \o (IF ~Contains(result.s, SEARCH_FAILED)
        THEN (IF FindNumbers(result.s) # <<>>
              THEN <<"Key numbers found: ">>
                   \o Join(SubSeq(FindNumbers(result.s), 1,
                                  IF Len(FindNumbers(result.s)) < 3
                                  THEN Len(FindNumbers(result.s)) ELSE 3),
                           <<", ">>)
                   \o <<"\n">>
              ELSE <<>>)
             \o <<"Excerpt: ">> \o Excerpt(result.s) \o <<"\n">>
        ELSE <<"X ">> \o result.s \o <<"\n">>)

\* _analyze_verification_results: `"Search failed" not in result['result']`
\* is a TypeError when a result is None; otherwise the report, a source being
\* valid when its text does not hold "Search failed".
RECURSIVE SourceLines(_, _)
SourceLines(results, k) ==
    IF k > Len(results) THEN <<>>
    ELSE SourceSection(results[k], k) \o SourceLines(results, k + 1)

ValidResults(results) ==
    {k \in 1..Len(results) : ~Contains(results[k].s, SEARCH_FAILED)}

\* set(all_numbers): the numbers of the valid results
UniqueNumbers(results) ==
    UNION {{FindNumbers(results[k].s)[n] : n \in 1..Len(FindNumbers(results[k].s))} :
              k \in ValidResults(results)}

\* the orders in which a set may be iterated
Orders(S) ==
    {order \in [1..Cardinality(S) -> S] :
        \A a, b \in 1..Cardinality(S) : order[a] = order[b] => a = b}

\* if len(unique_numbers) <= 3: ... else: ...
ConsensusNote(unique_numbers) ==
    IF Cardinality(unique_numbers) <= 3
    THEN <<"Results show some consistency across sources\n">>
    ELSE <<"Results show significant variation - this is normal for complex specifications\n">>

\* the lines after "VERIFICATION ANALYSIS:"; order: how the set of numbers
\* happens to be iterated by ', '.join(set(all_numbers))
Analysis(results, order) ==
    IF Cardinality(ValidResults(results)) >= 2
    THEN (IF UniqueNumbers(results) # {}
          THEN <<"Numbers found across sources: ">> \o Join(order, <<", ">>) \o <<"\n">>
               \o ConsensusNote(UniqueNumbers(results))
          ELSE <<>>)
         \o <<"Successfully verified with sources">>
    ELSE IF Cardinality(ValidResults(results)) = 1
    THEN <<"Only one source provided results">>
    ELSE <<"No sources provided valid results">>

AnalyzeVerificationResults(results, order) ==
    IF \E k \in 1..Len(results) : results[k].t = "NoneType"
    THEN Raises
    ELSE Returns(PyStr(
           <<"MULTI-SOURCE VERIFICATION REPORT\n">>
           \o SourceLines(results, 1)
           \o <<"VERIFICATION ANALYSIS:\n">>
           \o Analysis(results, order)
           \o <<"\nRECOMMENDATION:">>))

\* result = web_search(query), or "Search failed: ..." when it raised
SearchResults(searches) ==
    [k \in 1..Len(searches) |->
        IF searches[k].exc THEN PyStr(SEARCH_FAILED \o <<":", " ">>)
        ELSE searches[k].val]

\* verify_result for one iteration order of the set of numbers: the report,
\* or the caught exception as a text
VerifyResultIn(searches, order) ==
    LET r == AnalyzeVerificationResults(SearchResults(searches), order)
    IN  IF r.exc
        THEN Returns(PyStr(<<"Multi-source verification failed: ",
                             "argument of type 'NoneType' is not iterable",
                             ". Consider manually double-checking">>))
        ELSE r

\* verify_result: what it may return
VerifyResult(searches) ==
    IF \E k \in 1..Len(searches) :
          ~searches[k].exc /\ searches[k].val.t = "NoneType"
    THEN {VerifyResultIn(searches, <<>>)}
    ELSE {VerifyResultIn(searches, order) :
            order \in Orders(UniqueNumbers(SearchResults(searches)))}

\* len(queries): _generate_verification_queries appends four queries
VERIFY_QUERIES == 4

-----------------------------------------------------------------------------
(* ReActAgent.run: agents/main_agent.py (and react_agent.py, the same loop) *)

TX_thought ==
    <<"T", "h", "o", "u", "g", "h", "t", ":", " ", "I", " ", "n", "e", "e",
      "d">>
TX_plain ==
    <<"o", "k">>
TX_calc ==
    <<"A", "c", "t", "i", "o", "n", ":", " ", "c", "a", "l", "c", "u", "l",
      "a", "t", "o", "r", ":", " ", "2", " ", "+", " ", "3">>
TX_search ==
    <<"T", "h", "o", "u", "g", "h", "t", ":", " ", "I", " ", "n", "e", "e",
      "d", "\n", "A", "c", "t", "i", "o", "n", ":", " ", "w", "e", "b", "_",
      "s", "e", "a", "r", "c", "h", ":", " ", "g", "e", "9", "0">>
TX_verify ==
    <<"A", "c", "t", "i", "o", "n", ":", " ", "v", "e", "r", "i", "f", "y",
      "_", "r", "e", "s", "u", "l", "t", ":", " ", "g", "e", "9", "0">>
TX_unknown ==
    <<"A", "c", "t", "i", "o", "n", ":", " ", "l", "o", "o", "k", "u", "p",
      ":", " ", "g", "e", "9", "0">>
TX_malformed ==
    <<"A", "c", "t", "i", "o", "n", ":", " ", "c", "a", "l", "c", "u", "l",
      "a", "t", "o", "r", " ", "2", " ", "+", " ", "3">>
TX_spaced ==
    <<"A", "c", "t", "i", "o", "n", ":", " ", "c", "a", "l", "c", "u", "l",
      "a", "t", "o", "r", " ", ":", " ", "2", " ", "+", " ", "3">>
TX_final ==
    <<"T", "h", "o", "u", "g", "h", "t", ":", " ", "I", " ", "n", "e", "e",
      "d", "\n", "F", "i", "n", "a", "l", " ", "A", "n", "s", "w", "e", "r",
      ":", " ", "4", "2">>
TX_final_padded ==
    <<"F", "i", "n", "a", "l", " ", "A", "n", "s", "w", "e", "r", ":", " ",
      " ", "4", "2", " ", "\n">>
QUESTION ==
    <<"W", "h", "a", "t", " ", "i", "s", " ", "2", " ", "+", " ", "3", "?">>

IN_quoted == <<"\"", "t", "e", "s", "t", "\"">>
TX_calc_import == ACTION_MARK \o <<" ">> \o T_calculator \o <<":", " ">> \o IN_import_os
TX_calc_class == ACTION_MARK \o <<" ">> \o T_calculator \o <<":", " ">> \o IN_class_name
TX_calc_throw == ACTION_MARK \o <<" ">> \o T_calculator \o <<":", " ">> \o IN_throw
TX_analyze == ACTION_MARK \o T_text_analyzer \o <<":">> \o IN_quoted
TX_two_actions == TX_calc \o <<"\n">> \o TX_verify
TX_action_final == TX_calc \o <<"\n">> \o TX_final
TX_two_finals == TX_final \o <<" ">> \o FINAL_MARK \o <<" ">> \o V_5 \o <<" ">>

\* what the model may answer with in one cycle
AssistantTexts ==
    {TX_thought, TX_plain, TX_calc, TX_calc_import, TX_calc_throw, TX_calc_class,
     TX_search,
     TX_verify, TX_analyze,
     TX_unknown, TX_malformed, TX_spaced, TX_two_actions, TX_final,
     TX_final_padded, TX_action_final, TX_two_finals}

MAX_ITERATIONS_MSG == <<"Max iterations reached without final answer">>
SYSTEM_PROMPT == <<"You are a helpful assistant that uses tools to answer questions.">>
OBSERVATION == <<"Observation: ">>

Turn(role, content) == [role |-> role, content |-> content]
Last(s) == s[Len(s)]

\* a request that carries the seed turns and the last turn only
PayloadWindow(transcript) ==
    IF Len(transcript) <= 3 THEN transcript
    ELSE SubSeq(transcript, 1, 2) \o <<transcript[Len(transcript)]>>

\* messages=messages: the list itself, all of it
Payload(transcript) == transcript

\* a loop that runs once too often
LoopContinuesInclusive(k, n) == k <= n

\* for i in range(self.max_iterations)
LoopContinues(k, n) == k < n

\* "Final Answer:" in assistant_message
HasFinalAnswer(text) == Contains(text, FINAL_MARK)

\* split(...)[1] in place of split(...)[-1]
FinalAnswerSecondPiece(text) ==
    LET pieces == Split(text, FINAL_MARK)
    IN  Strip(pieces[IF Len(pieces) < 2 THEN Len(pieces) ELSE 2])

\* assistant_message.split("Final Answer:")[-1].strip()
FinalAnswer(text) == Strip(Last(Split(text, FINAL_MARK)))

\* the action looked for before the final answer
ClassifyActionFirst(text) ==
    IF ParseAction(text).found THEN "action"
    ELSE IF HasFinalAnswer(text) THEN "final"
    ELSE "none"

\* the order of the checks of one cycle: the final answer first, then the action
Classify(text) ==
    IF HasFinalAnswer(text) THEN "final"
    ELSE IF ParseAction(text).found THEN "action"
    ELSE "none"

\* the three computations above for every text the model may answer with,
\* computed once
ClassOf == [text \in AssistantTexts |-> Classify(text)]
ActionOf == [text \in AssistantTexts |-> ParseAction(text)]
FinalAnswerOf == [text \in AssistantTexts |-> FinalAnswer(text)]

\* f"Observation: {observation}"
ObservationText(observation) == OBSERVATION \o Format(observation)

\* the error observation without the tool's name
UnknownToolTextNoName(tool_name) ==
    OBSERVATION \o <<"Error - Unknown tool">>

\* f"Observation: Error - Unknown tool '{tool_name}'"
UnknownToolText(tool_name) ==
    OBSERVATION \o <<"Error - Unknown tool '">> \o tool_name \o <<"'">>

\* what the chain may return to a tool of the run: nothing found, or a text
RunChainValues ==
    {ChainExhausted, PyStr(DIRECT_ANSWER \o A_42)}

\* self.tools[tool_name]['function'](tool_input), for what the world does
ToolOutcomes(tool_name, tool_input, key) ==
    IF tool_name = T_calculator
    THEN {Calculator(ev) : ev \in Eval(tool_input)}
    ELSE IF tool_name = T_text_analyzer
    THEN {TextAnalyzer(tool_input)}
    ELSE IF tool_name = T_web_search
    THEN {WebSearch(key, c) : c \in RunChainValues}
    ELSE UNION {VerifyResult(cs) :
            cs \in [1..VERIFY_QUERIES -> {WebSearch(key, c) : c \in RunChainValues}]}

\* the agent is constructed; run has not been called
InitRun ==
    /\ pc = "idle"
    /\ max_iterations \in 0..MaxIter
    /\ serpapi_key \in BOOLEAN
    /\ messages = <<>>
    /\ i = 0
    /\ ret = NoValue
    /\ completions = 0
    /\ calls = <<>>
    /\ unknown = 0
    /\ payload = <<>>

\* run(question): the transcript is seeded
RunStart ==
    /\ pc = "idle"
    /\ pc' = "loop"
    /\ messages' = <<Turn("system", SYSTEM_PROMPT), Turn("user", QUESTION)>>
    /\ UNCHANGED <<max_iterations, serpapi_key, i, ret, completions, calls, unknown, payload>>

\* one cycle whose answer holds the final-answer marker: run returns
CycleFinal(text) ==
    /\ pc = "loop" /\ LoopContinues(i, max_iterations)
    /\ ClassOf[text] = "final"
    /\ completions' = completions + 1
    /\ messages' = Append(messages, Turn("assistant", text))
    /\ ret' = PyStr(FinalAnswerOf[text])
    /\ pc' = "done"
    /\ payload' = Payload(messages)
    /\ UNCHANGED <<max_iterations, serpapi_key, i, calls, unknown>>

\* one cycle whose answer holds an action naming a registered tool
CycleTool(text) ==
    /\ pc = "loop" /\ LoopContinues(i, max_iterations)
    /\ ClassOf[text] = "action"
    /\ LET a == ActionOf[text]
       IN  /\ a.tool_name \in Tools
           /\ \E o \in ToolOutcomes(a.tool_name, a.tool_input, serpapi_key) :
                /\ calls' = Append(calls, [name |-> a.tool_name, input |-> a.tool_input])
                /\ IF o.exc
                   THEN /\ pc' = "raised"
                        /\ messages' = Append(messages, Turn("assistant", text))
                        /\ i' = i
                   ELSE /\ pc' = "loop"
                        /\ messages' = Append(Append(messages, Turn("assistant", text)),
                                              Turn("user", ObservationText(o.val)))
                        /\ i' = i + 1
    /\ completions' = completions + 1
    /\ payload' = Payload(messages)
    /\ UNCHANGED <<max_iterations, serpapi_key, ret, unknown>>

\* one cycle whose answer holds an action naming no registered tool
CycleUnknownTool(text) ==
    /\ pc = "loop" /\ LoopContinues(i, max_iterations)
    /\ ClassOf[text] = "action"
    /\ LET a == ActionOf[text]
       IN  /\ a.tool_name \notin Tools
           /\ messages' = Append(Append(messages, Turn("assistant", text)),
                                 Turn("user", UnknownToolText(a.tool_name)))
    /\ unknown' = unknown + 1
    /\ completions' = completions + 1
    /\ i' = i + 1
    /\ payload' = Payload(messages)
    /\ UNCHANGED <<pc, max_iterations, serpapi_key, ret, calls>>

\* a cycle without an action that injects a turn of its own
CycleNoActionInjects(text) ==
    /\ pc = "loop" /\ LoopContinues(i, max_iterations)
    /\ ClassOf[text] = "none"
    /\ messages' = Append(Append(messages, Turn("assistant", text)),
                          Turn("user", <<"Observation: ", "No action found">>))
    /\ completions' = completions + 1
    /\ i' = i + 1
    /\ payload' = Payload(messages)
    /\ UNCHANGED <<pc, max_iterations, serpapi_key, ret, calls, unknown>>

\* a cycle without an action that ends the run with the model's text
CycleNoActionReturns(text) ==
    /\ pc = "loop" /\ LoopContinues(i, max_iterations)
    /\ ClassOf[text] = "none"
    /\ messages' = Append(messages, Turn("assistant", text))
    /\ completions' = completions + 1
    /\ ret' = PyStr(text)
    /\ pc' = "done"
    /\ payload' = Payload(messages)
    /\ UNCHANGED <<max_iterations, serpapi_key, i, calls, unknown>>

\* one cycle whose answer holds neither: nothing is injected
CycleNoAction(text) ==
    /\ pc = "loop" /\ LoopContinues(i, max_iterations)
    /\ ClassOf[text] = "none"
    /\ messages' = Append(messages, Turn("assistant", text))
    /\ completions' = completions + 1
    /\ i' = i + 1
    /\ payload' = Payload(messages)
    /\ UNCHANGED <<pc, max_iterations, serpapi_key, ret, calls, unknown>>

\* the loop ran out: return "Max iterations reached without final answer"
RunExhausted ==
    /\ pc = "loop" /\ ~LoopContinues(i, max_iterations)
    /\ ret' = PyStr(MAX_ITERATIONS_MSG)
    /\ pc' = "done"
    /\ UNCHANGED <<max_iterations, serpapi_key, messages, i, completions, calls, unknown, payload>>

-----------------------------------------------------------------------------
(* The specification of one run of the agent *)

RunIdle ==
    /\ pc = "idle"
    /\ max_iterations = 0
    /\ serpapi_key = FALSE
    /\ messages = <<>>
    /\ i = 0
    /\ ret = NoValue
    /\ completions = 0
    /\ calls = <<>>
    /\ unknown = 0
    /\ payload = <<>>

NotTested == [found |-> FALSE, tool_name |-> <<"?">>, tool_input |-> <<"?">>]

ParseIdle ==
    /\ message = [pre |-> <<>>, sp1 |-> 0, name |-> <<>>, sp2 |-> 0, sp3 |-> 0,
                  input |-> <<>>, trail |-> 0]
    /\ match = NotTested

SearchIdle ==
    /\ sPc = "idle"
    /\ query = <<>>
    /\ attempt = 0
    /\ requests = <<>>
    /\ outcomes = <<>>
    /\ sResult = NoValue

\* numbers before the pattern was run
NoList == [done |-> FALSE, list |-> <<>>]

VerifyIdle ==
    /\ vPc = "idle"
    /\ sources = <<>>
    /\ report = NoValue
    /\ vDescription = <<>>
    /\ queries = <<>>
    /\ searched = <<>>
    /\ result_text = <<>>
    /\ numbers = NoList

NotAnalyzed == [done |-> FALSE]

TextIdle ==
    /\ ta_text = <<>>
    /\ analysis = NotAnalyzed

NotFormatted == <<[kind |-> "none"]>>

FormatIdle ==
    /\ chat_history = <<>>
    /\ formatted = NotFormatted

\* self.tools = {}
NoTools == [name \in {} |-> [function |-> "", description |-> ""]]
NoCall == [name |-> <<>>, function |-> "", description |-> ""]

RegistryIdle ==
    /\ tools = NoTools
    /\ last_call = NoCall

ChatIdle ==
    /\ chat_requests = <<>>
    /\ serving = 0
    /\ responses = <<>>

\* no get_chat_history call has returned
NoHistory == [returned |-> FALSE, chat_id |-> "", messages |-> <<>>]

CacheIdle ==
    /\ now = 0
    /\ conversation_cache = <<>>
    /\ saved = <<>>
    /\ db = <<>>
    /\ swPc = "sleeping"
    /\ current_time = 0
    /\ snapshot = <<>>
    /\ wake = 0
    /\ digests = <<>>
    /\ recipient_email = ""
    /\ sent = <<>>
    /\ event = "none"
    /\ stop = FALSE
    /\ combined_messages = NoHistory
    /\ reads = 0

Init ==
    /\ InitRun /\ ParseIdle /\ SearchIdle /\ VerifyIdle /\ TextIdle /\ FormatIdle /\ CacheIdle
    /\ RegistryIdle /\ ChatIdle

Next ==
    \/ RunStart /\ UNCHANGED <<parseVars, searchVars, verifyVars, textVars, formatVars, cacheVars,
                               registryVars, chatVars>>
    \/ \E text \in AssistantTexts :
         CycleFinal(text) /\ UNCHANGED <<parseVars, searchVars, verifyVars, textVars, formatVars, cacheVars,
                                         registryVars, chatVars>>
    \/ \E text \in AssistantTexts :
         CycleTool(text) /\ UNCHANGED <<parseVars, searchVars, verifyVars, textVars, formatVars, cacheVars,
                                        registryVars, chatVars>>
    \/ \E text \in AssistantTexts :
         CycleUnknownTool(text) /\ UNCHANGED <<parseVars, searchVars, verifyVars, textVars, formatVars, cacheVars,
                                               registryVars, chatVars>>
    \/ \E text \in AssistantTexts :
         CycleNoAction(text) /\ UNCHANGED <<parseVars, searchVars, verifyVars, textVars, formatVars, cacheVars,
                                            registryVars, chatVars>>
    \/ RunExhausted /\ UNCHANGED <<parseVars, searchVars, verifyVars, textVars, formatVars, cacheVars,
                                   registryVars, chatVars>>

Spec == Init /\ [][Next]_vars

-----------------------------------------------------------------------------
(* debug_action_parsing.test_action_parsing: the regex on test messages *)

PRE_thought ==
    THOUGHT_MARK \o <<" ", "I", " ", "n", "e", "e", "d", "\n">>

\* 'Action:' sp1 name sp2 ':' sp3 input, after an optional Thought line
TestMessages ==
    [pre : {<<>>, PRE_thought},
     sp1 : 0..MaxSpaces,
     name : {T_calculator, T_text_analyzer},
     sp2 : 0..MaxSpaces,
     sp3 : 0..MaxSpaces,
     input : {IN_2plus3, IN_quoted},
     trail : 0..1]

Render(m) ==
    m.pre \o ACTION_MARK \o Spaces(m.sp1) \o m.name \o Spaces(m.sp2) \o <<":">>
          \o Spaces(m.sp3) \o m.input \o Spaces(m.trail)

InitParse ==
    /\ message \in TestMessages
    /\ match = NotTested
    /\ RunIdle
    /\ SearchIdle
    /\ VerifyIdle /\ TextIdle /\ FormatIdle /\ CacheIdle
    /\ RegistryIdle /\ ChatIdle

\* one test case: match = re.search(action_regex, message)
TestActionParsing ==
    /\ match = NotTested
    /\ match' = ParseAction(Render(message))
    /\ UNCHANGED <<message, runVars, searchVars, verifyVars, textVars, formatVars, cacheVars,
                   registryVars, chatVars>>

NextParse == TestActionParsing

SpecParse == InitParse /\ [][NextParse]_vars

-----------------------------------------------------------------------------
(* The specification of one web_search call with a provider answering *)

Q_ge90 ==
    <<"g", "e", "9", "0">>
Q_power ==
    <<"p", "o", "w", "e", "r", " ", "o", "f", " ", "x">>
D_engine ==
    <<"G", "E", "9", "0", " ", "e", "n", "g", "i", "n", "e">>

Queries == {Q_ge90, Q_power}

\* a snippet of n characters
Snippet(n) == PyStr([k \in 1..n |-> "x"])
\* a snippet of n characters between two spaces
Padded(n) == PyStr(<<" ">> \o [k \in 1..n |-> "x"] \o <<" ">>)

AnswerBoxes ==
    {[present |-> FALSE, answer |-> Missing, snippet |-> Missing],
     [present |-> TRUE, answer |-> Missing, snippet |-> Missing],
     [present |-> TRUE, answer |-> PyStr(A_42), snippet |-> Missing],
     [present |-> TRUE, answer |-> Missing, snippet |-> PyStr(D_engine)],
     [present |-> TRUE, answer |-> PyStr(A_42), snippet |-> PyStr(D_engine)]}

KnowledgeGraphs ==
    {[present |-> FALSE, description |-> Missing],
     [present |-> TRUE, description |-> Missing],
     [present |-> TRUE, description |-> PyStr(D_engine)]}

Item(snippet) == [snippet |-> snippet]

OrganicResults ==
    {[present |-> FALSE, items |-> <<>>],
     [present |-> TRUE, items |-> <<>>],
     [present |-> TRUE, items |-> <<Item(Snippet(SNIPPET_LEN))>>],
     [present |-> TRUE, items |-> <<Item(Padded(SNIPPET_LEN))>>],
     [present |-> TRUE, items |-> <<Item(Snippet(SNIPPET_LEN + 1))>>],
     [present |-> TRUE, items |-> <<Item(Missing), Item(Padded(SNIPPET_LEN + 1))>>],
     [present |-> TRUE, items |-> <<Item(Snippet(SNIPPET_LEN - 1)), Item(Missing),
                                    Item(Snippet(SNIPPET_LEN + 1))>>],
     [present |-> TRUE, items |-> <<Item(Snippet(SNIPPET_LEN + 1)),
                                    Item(Snippet(SNIPPET_LEN + 2))>>]}

\* response.json()
Responses ==
    [answer_box : AnswerBoxes, knowledge_graph : KnowledgeGraphs,
     organic_results : OrganicResults]

NoData ==
    [answer_box |-> [present |-> FALSE, answer |-> Missing, snippet |-> Missing],
     knowledge_graph |-> [present |-> FALSE, description |-> Missing],
     organic_results |-> [present |-> FALSE, items |-> <<>>]]

\* what one requests.get(...).json() does: an exception, or a decoded response
RequestOutcomes ==
    {[exc |-> TRUE, data |-> NoData]} \cup {[exc |-> FALSE, data |-> d] : d \in Responses}

\* what the chain returns on one outcome; NoValue: it goes on
Found(o) == IF o.exc THEN NoValue ELSE InspectResponse(o.data)

\* a loop that skips every other variation
NextAttemptSkips(k) == k + 2

\* the next index of enumerate(query_variations[:max_retries])
NextAttempt(k) == k + 1

\* a handler that leaves the loop
OnExceptionBreak(k) == MAX_RETRIES

\* except Exception as e: print(...); continue
OnException(k) == NextAttempt(k)

InitSearch ==
    /\ sPc = "idle"
    /\ query \in Queries
    /\ attempt = 0
    /\ requests = <<>>
    /\ outcomes = <<>>
    /\ sResult = NoValue
    /\ pc = "idle"
    /\ max_iterations = 0
    /\ serpapi_key \in BOOLEAN
    /\ messages = <<>>
    /\ i = 0
    /\ ret = NoValue
    /\ completions = 0
    /\ calls = <<>>
    /\ unknown = 0
    /\ payload = <<>>
    /\ ParseIdle
    /\ VerifyIdle /\ TextIdle /\ FormatIdle /\ CacheIdle
    /\ RegistryIdle /\ ChatIdle

\* web_search(query) without SERPAPI_KEY
WebSearchNoKey ==
    /\ sPc = "idle" /\ ~serpapi_key
    /\ sResult' = WebSearch(serpapi_key, NoValue).val
    /\ sPc' = "done"
    /\ UNCHANGED <<query, attempt, requests, outcomes>>

\* web_search(query) with SERPAPI_KEY: _search_with_serpapi is entered
WebSearchCall ==
    /\ sPc = "idle" /\ serpapi_key
    /\ sPc' = "trying"
    /\ UNCHANGED <<query, attempt, requests, outcomes, sResult>>

\* one pass of the loop: the request for the variation, and what comes of it
SearchAttempt ==
    /\ sPc = "trying"
    /\ attempt < Len(Attempted(query))
    /\ \E o \in RequestOutcomes :
         /\ requests' = Append(requests, Attempted(query)[attempt + 1])
         /\ outcomes' = Append(outcomes, o)
         /\ IF Found(o) # NoValue
            THEN /\ sResult' = Found(o)
                 /\ sPc' = "done"
                 /\ attempt' = attempt
            ELSE /\ attempt' = IF o.exc THEN OnException(attempt)
                                 ELSE NextAttempt(attempt)
                 /\ UNCHANGED <<sPc, sResult>>
    /\ UNCHANGED query

\* the loop ran out: return None
SearchGiveUp ==
    /\ sPc = "trying"
    /\ attempt >= Len(Attempted(query))
    /\ sResult' = WebSearch(serpapi_key, ChainExhausted).val
    /\ sPc' = "done"
    /\ UNCHANGED <<query, attempt, requests, outcomes>>

NextSearch ==
    \/ WebSearchNoKey /\ UNCHANGED <<runVars, parseVars, verifyVars, textVars, formatVars, cacheVars,
                                     registryVars, chatVars>>
    \/ WebSearchCall /\ UNCHANGED <<runVars, parseVars, verifyVars, textVars, formatVars, cacheVars,
                                    registryVars, chatVars>>
    \/ SearchAttempt /\ UNCHANGED <<runVars, parseVars, verifyVars, textVars, formatVars, cacheVars,
                                    registryVars, chatVars>>
    \/ SearchGiveUp /\ UNCHANGED <<runVars, parseVars, verifyVars, textVars, formatVars, cacheVars,
                                   registryVars, chatVars>>

SpecSearch == InitSearch /\ [][NextSearch]_vars

-----------------------------------------------------------------------------
(* Properties of the agent loop, checked under Spec *)

IsAssistant(m) == m.role = "assistant"
\* the model outputs of the run so far, in order
Outputs ==
    LET turns == SelectSeq(messages, IsAssistant)
    IN  [k \in 1..Len(turns) |-> turns[k].content]
SENTINEL == PyStr(<<"Max iterations reached without final answer">>)
Marked(text) == Contains(text, FINAL_MARK)

\* C1: a run with bound N issues at most N completion requests; it returns on
\* the first output that holds 'Final Answer:', and when none of the N
\* outputs holds it, it returns exactly the sentinel after the N-th completion.
C1_BoundedCompletions ==
    /\ completions = Len(Outputs)
    /\ completions <= max_iterations
    /\ \A k \in 1..(Len(Outputs) - 1) : ~Marked(Outputs[k])
    /\ pc = "loop" => \A k \in 1..Len(Outputs) : ~Marked(Outputs[k])
    /\ pc = "done" =>
         \/ /\ Len(Outputs) > 0
            /\ Marked(Outputs[Len(Outputs)])
            /\ ret # SENTINEL
         \/ /\ \A k \in 1..Len(Outputs) : ~Marked(Outputs[k])
            /\ completions = max_iterations
            /\ ret = SENTINEL

C1_Witness ==
    /\ pc = "done"
    /\ ret = SENTINEL
    /\ max_iterations >= 2
    /\ completions = max_iterations

\* C2: an output that holds 'Final Answer:' ends the run on that turn: no tool
\* is invoked and no observation is appended for it, also when a well-formed
\* action line stands before the marker.
C2_FinalAnswerFirst ==
    [][(/\ pc = "loop"
        /\ Len(messages') > Len(messages)
        /\ Marked(messages'[Len(messages) + 1].content))
       => (/\ pc' = "done"
           /\ ret'.t = "str"
           /\ calls' = calls
           /\ unknown' = unknown
           /\ messages' = Append(messages, messages'[Len(messages) + 1]))]_vars

C2_Witness ==
    /\ pc = "done"
    /\ Len(messages) = 3
    /\ messages[3] = Turn("assistant", TX_action_final)
    /\ ReSearchAction(TX_action_final).ok
    /\ calls = <<>>

\* the text after the first / the last occurrence of the marker, stripped
AfterFirstMarker(text) ==
    Strip(SubSeq(text, Find(text, FINAL_MARK) + Len(FINAL_MARK), Len(text)))
AfterLastMarker(text) ==
    LET at == Max({p \in 1..Len(text) : StartsWithAt(text, p, FINAL_MARK)})
    IN  Strip(SubSeq(text, at + Len(FINAL_MARK), Len(text)))

\* C4 as stated: the value returned for an output holding the marker is the
\* stripped text after the FIRST occurrence of 'Final Answer:'.
C4_AfterFirstMarker ==
    (pc = "done" /\ Len(Outputs) > 0 /\ Marked(Outputs[Len(Outputs)]))
        => ret = PyStr(AfterFirstMarker(Outputs[Len(Outputs)]))

\* C4 amended: the value returned is the stripped text after the LAST
\* occurrence of 'Final Answer:'.
C4_AfterLastMarker ==
    (pc = "done" /\ Len(Outputs) > 0 /\ Marked(Outputs[Len(Outputs)]))
        => ret = PyStr(AfterLastMarker(Outputs[Len(Outputs)]))

C4_Witness ==
    /\ pc = "done"
    /\ Len(Outputs) > 0
    /\ Outputs[Len(Outputs)] = TX_two_finals
    /\ ret = PyStr(V_5)

\* C5: whatever the model answers and whatever the tools' world does, run
\* returns a text (a final answer or the sentinel) and no exception leaves it.
C5_NoExceptionEscapes ==
    /\ pc # "raised"
    /\ pc = "done" =>
         /\ ret.t = "str"
         /\ \/ ret = SENTINEL
            \/ Len(Outputs) > 0 /\ Marked(Outputs[Len(Outputs)])

\* C6: an action naming an unregistered tool invokes no tool, appends exactly
\* one user turn "Observation: Error - Unknown tool '<name>'" right after the
\* assistant turn, raises nothing, and the loop goes on to the next cycle.
C6_UnknownTool ==
    [][(/\ pc = "loop"
        /\ Len(messages') > Len(messages)
        /\ ~Marked(messages'[Len(messages) + 1].content)
        /\ ReSearchAction(messages'[Len(messages) + 1].content).ok
        /\ ReSearchAction(messages'[Len(messages) + 1].content).name \notin Tools)
       => (/\ calls' = calls
           /\ pc' = "loop"
           /\ i' = i + 1
           /\ Len(messages') = Len(messages) + 2
           /\ messages'[Len(messages) + 1].role = "assistant"
           /\ messages'[Len(messages) + 2] =
                Turn("user",
                     <<"Observation: ", "Error - Unknown tool '">>
                     \o ReSearchAction(messages'[Len(messages) + 1].content).name
                     \o <<"'">>))]_vars

C6_Witness ==
    /\ pc = "done"
    /\ ret = SENTINEL
    /\ calls = <<>>
    /\ \E k \in 1..Len(messages) :
         messages[k] = Turn("user", <<"Observation: ", "Error - Unknown tool '">>
                                    \o T_lookup \o <<"'">>)

-----------------------------------------------------------------------------
(* Properties of the action regex, checked under SpecParse *)

\* C3: every well-formed action line, whatever spaces stand around its colons
\* (also between the tool name and the second colon), is found, with the same
\* tool name and the same trimmed input.
C3_AllSpacingsParse ==
    match # NotTested =>
        /\ match.found
        /\ match.tool_name = message.name
        /\ match.tool_input = message.input

-----------------------------------------------------------------------------
(* Properties of the search chain, checked under SpecSearch *)

\* the response of request k satisfies the chain's priority rule
Qualifying(k) == Found(outcomes[k]) # NoValue

\* the documented order of the variants
DocumentedOrder(q) ==
    << q,
       q \o <<" ", "d", "e", "f", "i", "n", "i", "t", "i", "o", "n">>,
       <<"w", "h", "a", "t", " ", "i", "s", " ">> \o q,
       q \o <<" ", "e", "x", "p", "l", "a", "i", "n", "e", "d">> >>

\* C8: the requests go out in the documented order, one per variant; the
\* chain returns on the first response that satisfies the priority rule and
\* issues no request after it (two failures and a success: three requests).
C8_OrderedShortCircuit ==
    /\ Len(requests) = Len(outcomes)
    /\ Len(requests) <= Len(DocumentedOrder(query))
    /\ \A k \in 1..Len(requests) : requests[k] = DocumentedOrder(query)[k]
    /\ \A k \in 1..(Len(outcomes) - 1) : ~Qualifying(k)
    /\ (Len(outcomes) > 0 /\ Qualifying(Len(outcomes))) =>
           /\ sPc = "done"
           /\ sResult.t = "str"
    /\ (sPc = "trying") => Len(requests) = attempt

C8_Witness ==
    /\ sPc = "done"
    /\ Len(requests) = 3
    /\ outcomes[1].exc
    /\ ~outcomes[2].exc /\ ~Qualifying(2)
    /\ Qualifying(3)
    /\ sResult.t = "str"

\* the chain gave up: it ended and no response qualified
GaveUp == sPc = "done" /\ serpapi_key /\ \A k \in 1..Len(outcomes) : ~Qualifying(k)

\* C9 as stated: before giving up the chain requests the four variants:
\* query, '<query> definition', 'what is <query>', '<query> explained'.
C9_FourVariants ==
    GaveUp => requests = DocumentedOrder(query)

\* C9 amended: before giving up the chain requests exactly the first three
\* variants: query, '<query> definition', 'what is <query>', one request each.
C9_ThreeVariants ==
    GaveUp => requests = SubSeq(DocumentedOrder(query), 1, 3)

C9_Witness ==
    /\ GaveUp
    /\ Len(requests) = 3
    /\ outcomes[2].exc
    /\ sResult = PyNone

\* the organic snippets, of the first two results, whose stripped text is
\* longer than n characters
RECURSIVE LongSnippets(_, _)
LongSnippets(items, n) ==
    IF items = <<>> THEN <<>>
    ELSE (IF items[1].snippet.t = "str" /\ Len(Strip(items[1].snippet.s)) > n
          THEN <<items[1].snippet.s>> ELSE <<>>)
         \o LongSnippets(Tail(items), n)

Organic(d, n) ==
    IF d.organic_results.present
    THEN LongSnippets(SubSeq(d.organic_results.items, 1,
                             Min({2, Len(d.organic_results.items)})), n)
    ELSE <<>>

HasAnswer(d) == d.answer_box.present /\ d.answer_box.answer.t = "str"
HasBoxSnippet(d) == d.answer_box.present /\ d.answer_box.snippet.t = "str"
HasDescription(d) == d.knowledge_graph.present /\ d.knowledge_graph.description.t = "str"

\* the chain returned on request k
ReturnedAt(k) == k = Len(outcomes) /\ sPc = "done" /\ sResult.t = "str"

\* the text of the k-th kept snippet, after the heading and the bullets
RECURSIVE Bulleted(_)
Bulleted(snips) ==
    IF snips = <<>> THEN <<>>
    ELSE IF Len(snips) = 1 THEN <<"*", " ">> \o snips[1]
    ELSE <<"*", " ">> \o snips[1] \o <<"\n">> \o Bulleted(Tail(snips))

\* C10 as stated: a response qualifies iff it has an answer-box answer, a
\* knowledge-panel description, or, among the first two organic results, a
\* snippet of at least 20 characters; the first of these that exists is used.
C10_AtLeastTwenty ==
    \A k \in 1..Len(outcomes) :
        ~outcomes[k].exc =>
            LET d == outcomes[k].data
            IN  /\ ReturnedAt(k) <=>
                     (HasAnswer(d) \/ HasDescription(d) \/ Organic(d, 19) # <<>>)
                /\ ReturnedAt(k) =>
                     sResult.s =
                       IF HasAnswer(d) THEN DIRECT_ANSWER \o d.answer_box.answer.s
                       ELSE IF HasDescription(d)
                       THEN INFO \o d.knowledge_graph.description.s
                       ELSE SEARCH_RESULTS \o Bulleted(Organic(d, 19))

\* C10 amended: the chain uses (1) the answer-box answer, else the answer-box
\* snippet, (2) the knowledge-panel description, (3) the snippets, of the
\* first two organic results, whose stripped text is longer than 20
\* characters; a response qualifies iff one of these exists (a snippet of
\* exactly 20 characters does not), and a lower field is used only when every
\* higher one is absent.
C10_MoreThanTwenty ==
    \A k \in 1..Len(outcomes) :
        ~outcomes[k].exc =>
            LET d == outcomes[k].data
            IN  /\ ReturnedAt(k) <=>
                     (HasAnswer(d) \/ HasBoxSnippet(d) \/ HasDescription(d)
                        \/ Organic(d, 20) # <<>>)
                /\ ReturnedAt(k) =>
                     sResult.s =
                       IF HasAnswer(d) THEN DIRECT_ANSWER \o d.answer_box.answer.s
                       ELSE IF HasBoxSnippet(d) THEN ANSWER \o d.answer_box.snippet.s
                       ELSE IF HasDescription(d)
                       THEN INFO \o d.knowledge_graph.description.s
                       ELSE SEARCH_RESULTS \o Bulleted(Organic(d, 20))

\* the chain went past a snippet of exactly 20 characters and returned the
\* organic snippet of a later response
C10_Witness ==
    /\ sPc = "done"
    /\ Len(outcomes) = 2
    /\ ~outcomes[1].exc
    /\ ~HasAnswer(outcomes[1].data) /\ ~HasBoxSnippet(outcomes[1].data)
    /\ ~HasDescription(outcomes[1].data)
    /\ outcomes[1].data.organic_results.items = <<Item(Snippet(20))>>
    /\ ~outcomes[2].exc
    /\ ~HasAnswer(outcomes[2].data) /\ ~HasBoxSnippet(outcomes[2].data)
    /\ ~HasDescription(outcomes[2].data)
    /\ sResult.s = SEARCH_RESULTS \o <<"*", " ">> \o Snippet(21).s

-----------------------------------------------------------------------------
(* Failures inside the search chain, checked under SpecSearch *)

\* C11: an exception raised while requesting or decoding a variation ends
\* neither the chain nor the call: the loop goes on with the next variation in
\* order, nothing is returned on that pass, and the requests issued are always
\* the first variations, in order, whichever of them failed.
C11_ErrorNotFatal ==
    /\ [](/\ sPc \in {"idle", "trying", "done"}
          /\ Len(requests) <= Len(QueryVariations(query))
          /\ requests = SubSeq(QueryVariations(query), 1, Len(requests)))
    /\ [][(/\ Len(outcomes') = Len(outcomes) + 1
           /\ outcomes'[Len(outcomes')].exc)
          => (/\ sPc' = "trying"
              /\ sResult' = NoValue
              /\ attempt' = attempt + 1
              /\ Len(requests') = attempt')]_vars

\* the first variation raised and the second was answered
C11_Witness ==
    /\ sPc = "done"
    /\ Len(outcomes) = 2
    /\ outcomes[1].exc
    /\ ~outcomes[2].exc
    /\ sResult.t = "str"
    /\ requests = <<query, query \o SUF_definition>>

\* C12 as stated: web_search always returns a text, also when every attempted
\* variation failed or held no qualifying result.
C12_AlwaysText ==
    sPc = "done" => sResult.t = "str"

-----------------------------------------------------------------------------
(* utils/helpers.py: format_chat_history_for_email *)

\* the longest chat history formatted
MaxHistory == 3

Roles == {"user", "assistant"}
Contents == {"hi", "ok"}
\* seconds in a day: strftime("%Y-%m-%d") of a timestamp
DAY == 86400
Timestamps == {0, 5}

\* message.get("role", "unknown").upper()
Upper(role) ==
    CASE role = "user" -> "USER"
      [] role = "assistant" -> "ASSISTANT"
      [] role = "admin" -> "ADMIN"
      [] OTHER -> "UNKNOWN"

\* sorted(chat_history, key=timestamp_str): a stable sort; the isoformat
\* strings of datetimes are ordered as the times are
RECURSIVE InsertByTime(_, _)
InsertByTime(sorted, m) ==
    IF sorted = <<>> THEN <<m>>
    ELSE IF sorted[Len(sorted)].timestamp <= m.timestamp THEN Append(sorted, m)
    ELSE Append(InsertByTime(SubSeq(sorted, 1, Len(sorted) - 1), m),
                sorted[Len(sorted)])

RECURSIVE SortedHistory(_)
SortedHistory(history) ==
    IF history = <<>> THEN <<>>
    ELSE InsertByTime(SortedHistory(SubSeq(history, 1, Len(history) - 1)),
                      history[Len(history)])

\* a key that leaves the role out
MessageKeyContentOnly(m) == <<m.content>>

\* message_key = (message.get("role", ""), message.get("content", ""))
MessageKey(m) == <<m.role, m.content>>

\* unique_messages: the first message of every key, in order
RECURSIVE UniqueMessages(_, _)
UniqueMessages(history, seen_messages) ==
    IF history = <<>> THEN <<>>
    ELSE IF MessageKey(history[1]) \in seen_messages
    THEN UniqueMessages(Tail(history), seen_messages)
    ELSE <<history[1]>>
         \o UniqueMessages(Tail(history), seen_messages \cup {MessageKey(history[1])})

Line(kind, time, role, content) ==
    [kind |-> kind, time |-> time, role |-> role, content |-> content]

\* the "[Date: ...]" header on a new date, then "[HH:MM:SS] ROLE: content"
RECURSIVE FormatMessages(_, _)
FormatMessages(unique_messages, current_date) ==
    IF unique_messages = <<>> THEN <<>>
    ELSE LET m == unique_messages[1]
             message_date == m.timestamp \div DAY
         IN  (IF message_date # current_date
              THEN <<Line("date", message_date, "", "")>> ELSE <<>>)
             \o <<Line("message", m.timestamp, Upper(m.role), m.content)>>
             \o FormatMessages(Tail(unique_messages), message_date)

\* format_chat_history_for_email(chat_history), by the entries of its text
FormatChatHistory(history) ==
    <<Line("title", 0, "", "")>>
    \o FormatMessages(UniqueMessages(SortedHistory(history), {}), -1)

MessageDicts ==
    [id : 1..2, role : Roles, content : Contents, timestamp : Timestamps]

Histories == UNION {[1..n -> MessageDicts] : n \in 0..MaxHistory}

InitFormat ==
    /\ chat_history \in Histories
    /\ formatted = NotFormatted
    /\ RunIdle /\ ParseIdle /\ SearchIdle /\ VerifyIdle /\ TextIdle /\ CacheIdle
    /\ RegistryIdle /\ ChatIdle

FormatForEmail ==
    /\ formatted = NotFormatted
    /\ formatted' = FormatChatHistory(chat_history)
    /\ UNCHANGED <<chat_history, runVars, parseVars, searchVars, verifyVars,
                   textVars, cacheVars,
                   registryVars, chatVars>>

NextFormat == FormatForEmail

SpecFormat == InitFormat /\ [][NextFormat]_vars

\* the (role, content) pairs of a history, and the message entries of the text
Pairs(history) == {<<history[k].role, history[k].content>> : k \in 1..Len(history)}
MessageEntries == {k \in 1..Len(formatted) : formatted[k].kind = "message"}

\* C16: the formatted export holds exactly one entry for every distinct
\* (role, content) pair of the input, whatever the ids and timestamps of the
\* messages that carry the pair, and no pair is left out.
C16_OneEntryPerPair ==
    formatted # NotFormatted =>
        /\ Cardinality(MessageEntries) = Cardinality(Pairs(chat_history))
        /\ \A p \in Pairs(chat_history) :
             Cardinality({k \in MessageEntries :
                            /\ formatted[k].role = Upper(p[1])
                            /\ formatted[k].content = p[2]}) = 1

\* the same pair twice, under different ids and timestamps, and another pair
C16_Witness ==
    /\ formatted # NotFormatted
    /\ Len(chat_history) = 3
    /\ MessageKey(chat_history[1]) = MessageKey(chat_history[3])
    /\ chat_history[1].id # chat_history[3].id
    /\ chat_history[1].timestamp # chat_history[3].timestamp
    /\ chat_history[2].content = chat_history[1].content
    /\ chat_history[2].role # chat_history[1].role
    /\ Cardinality(MessageEntries) = 2

-----------------------------------------------------------------------------
(* utils/helpers.py: the conversation cache, save_message and the idle     *)
(* sweeper check_inactive_chats.  Both are coroutines of one event loop:   *)
(* save_message holds no await, so a call is one step; the sweeper is      *)
(* suspended at `await get_ai_summary(...)` and at `await asyncio.sleep`.  *)

\* the most save_message calls
MaxMsgs == 2
\* the most times the clock advances
MaxAdvance == 3

\* (current_time - last_message_time).total_seconds() > 10
IDLE_THRESHOLD == 10
\* await asyncio.sleep(5); also the step by which the clock advances
SWEEP_INTERVAL == 5

ChatIds == {"c1", "c2"}

\* position of chat_id among the keys of the dict; 0: not a key
CacheIndex(cache, chat_id) ==
    IF \E k \in 1..Len(cache) : cache[k].chat_id = chat_id
    THEN CHOOSE k \in 1..Len(cache) : cache[k].chat_id = chat_id
    ELSE 0

\* conversation_cache[chat_id]
Session(chat_id) == conversation_cache[CacheIndex(conversation_cache, chat_id)]

\* del conversation_cache[chat_id]
\* a del that removes nothing
RemoveNothing(cache, chat_id) == cache
Remove(cache, chat_id) == SelectSeq(cache, LAMBDA entry : entry.chat_id # chat_id)

\* db.query(ChatMessage).filter(ChatMessage.chat_id == chat_id)...all()
Rows(chat_id) == SelectSeq(db, LAMBDA row : row.chat_id = chat_id)

\* a threshold of no seconds
IdleNoThreshold(last_message_time, time) == time - last_message_time > 0

\* the test of lines 527-530
Idle(last_message_time, time) == time - last_message_time > IDLE_THRESHOLD

\* save_message with the cache written only after a successful commit
SaveMessageAfterCommit(chat_id, role, content, persisted) ==
    /\ Len(saved) < MaxMsgs
    /\ LET message_dict == [id |-> Len(saved) + 1, chat_id |-> chat_id, role |-> role,
                            content |-> content, timestamp |-> now]
           k == CacheIndex(conversation_cache, chat_id)
           entry == IF k = 0
                    THEN [chat_id |-> chat_id, messages |-> <<>>, last_message_time |-> now]
                    ELSE conversation_cache[k]
           appended == [entry EXCEPT !.messages = Append(@, message_dict),
                                     !.last_message_time = now]
       IN  /\ saved' = Append(saved, message_dict)
           /\ db' = IF persisted THEN Append(db, message_dict) ELSE db
           /\ conversation_cache' =
                  IF ~persisted THEN conversation_cache
                  ELSE IF k = 0 THEN Append(conversation_cache, appended)
                  ELSE [conversation_cache EXCEPT ![k] = appended]
    /\ UNCHANGED <<now, swPc, current_time, snapshot, wake, digests, recipient_email,
                   sent, event, stop, combined_messages, reads>>

\* save_message(chat_id, role, content, pluggr_id): the message_dict gets a new
\* id, the session is created if need be, the dict is appended and
\* last_message_time set; then the row is committed, or the failure logged
SaveMessage(chat_id, role, content, persisted) ==
    /\ Len(saved) < MaxMsgs
    /\ LET message_dict == [id |-> Len(saved) + 1, chat_id |-> chat_id, role |-> role,
                            content |-> content, timestamp |-> now]
           k == CacheIndex(conversation_cache, chat_id)
           entry == IF k = 0
                    THEN [chat_id |-> chat_id, messages |-> <<>>, last_message_time |-> now]
                    ELSE conversation_cache[k]
           appended == [entry EXCEPT !.messages = Append(@, message_dict),
                                     !.last_message_time = now]
       IN  /\ saved' = Append(saved, message_dict)
           /\ db' = IF persisted THEN Append(db, message_dict) ELSE db
           /\ conversation_cache' =
                  IF k = 0 THEN Append(conversation_cache, appended)
                  ELSE [conversation_cache EXCEPT ![k] = appended]
    /\ UNCHANGED <<now, swPc, current_time, snapshot, wake, digests, recipient_email,
                   sent, event, stop, combined_messages, reads>>

\* time passes
Advance ==
    /\ now < MaxAdvance * SWEEP_INTERVAL
    /\ now' = now + SWEEP_INTERVAL
    /\ UNCHANGED <<conversation_cache, saved, db, swPc, current_time, snapshot,
                   wake, digests, recipient_email, sent, event, stop, combined_messages,
                   reads>>

\* while True: the condition of the loop reads no signal
KeepSweeping(signal) == TRUE

\* a tick of `while True`: current_time and list(conversation_cache.items())
SweepTick ==
    /\ swPc = "sleeping" /\ now >= wake
    /\ KeepSweeping(stop)
    /\ current_time' = now
    /\ snapshot' = [k \in 1..Len(conversation_cache) |-> conversation_cache[k].chat_id]
    /\ swPc' = "scanning"
    /\ UNCHANGED <<now, conversation_cache, saved, db, wake, digests, recipient_email,
                   sent, event, stop, combined_messages, reads>>

\* an error of the processing that leaves the sweeper
OnProcessingErrorRaise == "raised"
\* except Exception as e: print("Error processing inactive chat ..."); the
\* finally closes the session and the for loop goes on
OnProcessingError == "scanning"

\* a test that lets every idle session through to the summary and the email
ResolvedAlways(recipient) == TRUE
\* if recipient_email:
Resolved(recipient) == recipient # ""

\* the address the Pluggr row gives
ADDRESS == "reports@pluggr"

\* one pass of the for loop, up to its end or to `await get_ai_summary`.
\* data is the dict the cache holds for chat_id: save_message changes it in
\* place, and only this loop removes it.  query_ok: the history query did
\* not raise; email: the lookup of the Pluggr row of the first persisted
\* message did not raise and the row has a reportsEmail.
SweepExamine(query_ok, email) ==
    /\ swPc = "scanning" /\ snapshot # <<>>
    /\ LET chat_id == Head(snapshot)
           data == Session(chat_id)
           messages_ == Rows(chat_id)
           recipient == IF messages_ # <<>> /\ email THEN ADDRESS ELSE ""
           complete_history == messages_ \o data.messages
       IN  IF ~Idle(data.last_message_time, current_time)
           THEN /\ snapshot' = Tail(snapshot)
                /\ UNCHANGED <<conversation_cache, swPc, digests, recipient_email, event>>
           ELSE IF ~query_ok
           THEN /\ snapshot' = Tail(snapshot)
                /\ swPc' = OnProcessingError
                /\ event' = "error_processing"
                /\ UNCHANGED <<conversation_cache, digests, recipient_email>>
           ELSE IF Resolved(recipient)
           THEN /\ digests' = Append(digests,
                                     [chat_id |-> chat_id,
                                      entries |-> FormatChatHistory(complete_history)])
                /\ swPc' = "awaiting"
                /\ recipient_email' = recipient
                /\ event' = "summarizing"
                /\ UNCHANGED <<conversation_cache, snapshot>>
           ELSE /\ conversation_cache' = Remove(conversation_cache, chat_id)
                /\ snapshot' = Tail(snapshot)
                /\ recipient_email' = recipient
                /\ event' = "no_recipient"
                /\ UNCHANGED <<swPc, digests>>
    /\ UNCHANGED <<now, saved, db, current_time, wake, sent, stop, combined_messages, reads>>

\* get_ai_summary came back with a summary (summary_ok) or with its error
\* text; send_email is called with either, and returns (delivered) or
\* raises, which is printed; del conversation_cache[chat_id]
SweepResume(summary_ok, delivered) ==
    /\ swPc = "awaiting"
    /\ sent' = Append(sent, [to |-> recipient_email, chat_id |-> Head(snapshot)])
    /\ event' = IF ~delivered THEN "error_sending"
                ELSE IF summary_ok THEN "sent" ELSE "sent_error_summary"
    /\ conversation_cache' = Remove(conversation_cache, Head(snapshot))
    /\ snapshot' = Tail(snapshot)
    /\ swPc' = "scanning"
    /\ UNCHANGED <<now, saved, db, current_time, wake, digests, recipient_email, stop,
                   combined_messages, reads>>

\* the for loop is over: await asyncio.sleep(5)
SweepSleep ==
    /\ swPc = "scanning" /\ snapshot = <<>>
    /\ swPc' = "sleeping"
    /\ wake' = now + SWEEP_INTERVAL
    /\ UNCHANGED <<now, conversation_cache, saved, db, current_time, snapshot, digests,
                   recipient_email, sent, event, stop, combined_messages, reads>>

InitSweep ==
    /\ CacheIdle /\ RegistryIdle /\ ChatIdle
    /\ RunIdle /\ ParseIdle /\ SearchIdle /\ VerifyIdle /\ TextIdle /\ FormatIdle

othersOfCache ==
    <<runVars, parseVars, searchVars, verifyVars, textVars, formatVars, registryVars, chatVars>>

NextSweep ==
    \/ \E chat_id \in ChatIds, content \in Contents, persisted \in BOOLEAN :
         SaveMessage(chat_id, "user", content, persisted) /\ UNCHANGED othersOfCache
    \/ Advance /\ UNCHANGED othersOfCache
    \/ SweepTick /\ UNCHANGED othersOfCache
    \/ \E query_ok \in BOOLEAN, email \in BOOLEAN :
         SweepExamine(query_ok, email) /\ UNCHANGED othersOfCache
    \/ \E summary_ok \in BOOLEAN, delivered \in BOOLEAN :
         SweepResume(summary_ok, delivered) /\ UNCHANGED othersOfCache
    \/ SweepSleep /\ UNCHANGED othersOfCache

SpecSweep == InitSweep /\ [][NextSweep]_vars

-----------------------------------------------------------------------------
(* Properties of the cache and the sweeper, checked under SpecSweep *)

\* the message is in the cached list of its session, once
StillCached(m) ==
    /\ CacheIndex(conversation_cache, m.chat_id) # 0
    /\ Cardinality({k \in 1..Len(Session(m.chat_id).messages) :
                       Session(m.chat_id).messages[k].id = m.id}) = 1

\* a digest built for the session of the message holds it, once
InDigest(m) ==
    \E d \in 1..Len(digests) :
        /\ digests[d].chat_id = m.chat_id
        /\ Cardinality({k \in 1..Len(digests[d].entries) :
                           /\ digests[d].entries[k].kind = "message"
                           /\ digests[d].entries[k].role = Upper(m.role)
                           /\ digests[d].entries[k].content = m.content}) = 1

\* C13 as stated: under every interleaving of save_message with the sweeper,
\* every message appended for a chat_id is still in the cache or was included,
\* once, in a digest built for its session.
C13_NoMessageLost ==
    \A k \in 1..Len(saved) : StillCached(saved[k]) \/ InDigest(saved[k])

\* C14 as stated (its safety half): a session leaves the cache only at the end
\* of a processing that built its summary, so that it is never removed
\* without having been summarized.
C14_RemovedOnlySummarized ==
    [][\A c \in ChatIds :
         (CacheIndex(conversation_cache, c) # 0 /\ CacheIndex(conversation_cache', c) = 0)
         => (/\ swPc = "awaiting"
             /\ Head(snapshot) = c
             /\ digests # <<>>
             /\ digests[Len(digests)].chat_id = c)]_vars

\* C15: when the loop examines a session whose last message is less than the
\* idle threshold old, the pass neither processes nor removes it: the cache and
\* the digests are as before and the sweeper is not left awaiting a summary.
C15_FreshSessionKept ==
    [][(/\ swPc = "scanning" /\ snapshot # <<>>
        /\ snapshot' = Tail(snapshot) \/ swPc' # swPc
        /\ now - Session(Head(snapshot)).last_message_time < IDLE_THRESHOLD)
       => (/\ conversation_cache' = conversation_cache
           /\ digests' = digests
           /\ swPc' = "scanning"
           /\ snapshot' = Tail(snapshot))]_vars

\* a tick that summarized and removed one session and then examined the
\* other, which was in the cache before the tick and had a message less than
\* the threshold ago: it is still cached, with all its messages
C15_Witness ==
    /\ swPc = "scanning" /\ snapshot = <<>>
    /\ Len(digests) = 1
    /\ Len(conversation_cache) = 1
    /\ conversation_cache[1].chat_id # digests[1].chat_id
    /\ conversation_cache[1].messages # <<>>
    /\ conversation_cache[1].messages[1].timestamp < current_time
    /\ now - conversation_cache[1].last_message_time < IDLE_THRESHOLD
    /\ \A k \in 1..Len(saved) :
         saved[k].chat_id = conversation_cache[1].chat_id => StillCached(saved[k])

\* C17: a save_message whose commit failed raises nothing, leaves the message
\* last in the cached list of its session with last_message_time set to the
\* time of the call, and the session takes further messages.
C17_FailedWriteKeepsMessage ==
    [][(Len(saved') = Len(saved) + 1 /\ db' = db)
       => LET m == saved'[Len(saved')]
              k == CacheIndex(conversation_cache', m.chat_id)
          IN  /\ k # 0
              /\ conversation_cache'[k].last_message_time = now
              /\ conversation_cache'[k].messages # <<>>
              /\ conversation_cache'[k].messages[Len(conversation_cache'[k].messages)] = m
              /\ \A c \in ChatIds :
                    c # m.chat_id =>
                      /\ CacheIndex(conversation_cache', c) = CacheIndex(conversation_cache, c)
                      /\ CacheIndex(conversation_cache, c) # 0 =>
                            conversation_cache'[CacheIndex(conversation_cache', c)]
                              = conversation_cache[CacheIndex(conversation_cache, c)]
              /\ swPc' = swPc]_vars

\* a message whose commit failed, then one more message in the same session
C17_Witness ==
    /\ Len(saved) = 2
    /\ db = <<saved[2]>>
    /\ saved[1].chat_id = saved[2].chat_id
    /\ CacheIndex(conversation_cache, saved[1].chat_id) # 0
    /\ Session(saved[1].chat_id).messages = saved
    /\ Session(saved[1].chat_id).last_message_time = saved[2].timestamp
    /\ saved[2].timestamp > saved[1].timestamp

-----------------------------------------------------------------------------
(* tools/verify_result.py: one verify_result call, source by source *)

\* what web_search(query) may do for one source: what the chain returns with
\* a key, the no-provider text without one, or an exception
SourceOutcomes(key) ==
    {WebSearch(key, c) : c \in RunChainValues} \cup {Raises}

\* the letters of str.lower(), capital by capital
UPPERCASE ==
    <<"A", "B", "C", "D", "E", "F", "G", "H", "I", "J", "K", "L", "M",
      "N", "O", "P", "Q", "R", "S", "T", "U", "V", "W", "X", "Y", "Z">>
LOWERCASE ==
    <<"a", "b", "c", "d", "e", "f", "g", "h", "i", "j", "k", "l", "m",
      "n", "o", "p", "q", "r", "s", "t", "u", "v", "w", "x", "y", "z">>

\* s.lower()
Lower(s) ==
    [k \in 1..Len(s) |->
        IF \E n \in 1..Len(UPPERCASE) : UPPERCASE[n] = s[k]
        THEN LOWERCASE[CHOOSE n \in 1..Len(UPPERCASE) : UPPERCASE[n] = s[k]]
        ELSE s[k]]

\* s[:n]
Slice(s, n) == SubSeq(s, 1, IF Len(s) < n THEN Len(s) ELSE n)

\* s.strip(chars)
StripChars(s, chars) ==
    LET keep == {p \in 1..Len(s) : s[p] \notin chars}
    IN  IF keep = {} THEN <<>> ELSE SubSeq(s, Min(keep), Max(keep))

\* the words of the pattern of _extract_key_terms
STOP_WORDS ==
    {<<"v", "e", "r", "i", "f", "y">>,
     <<"c", "h", "e", "c", "k">>,
     <<"v", "a", "l", "i", "d", "a", "t", "e">>,
     <<"r", "e", "s", "u", "l", "t">>,
     <<"s", "e", "e", "m", "s">>,
     <<"a", "p", "p", "e", "a", "r", "s">>,
     <<"p", "o", "w", "e", "r">>,
     <<"o", "f">>,
     <<"t", "h", "e">>,
     <<"i", "n">>,
     <<"t", "e", "r", "m", "s">>,
     <<"b", "a", "s", "e", "d">>,
     <<"o", "n">>,
     <<"i", "t", "s">>,
     <<"o", "u", "t", "p", "u", "t">>}

\* strip('.,()[]')
PUNCTUATION == {".", ",", "(", ")", "[", "]"}

\* re.sub(r'\b(w1|w2|...)\b', '', s) for words made of \w characters: a
\* match starts and ends at a word boundary, so it is a whole run of \w
\* characters, and every run that is one of the words is taken out
RECURSIVE RemoveWords(_, _)
RemoveWords(s, words) ==
    IF s = <<>> THEN <<>>
    ELSE IF ~IsWord(s[1]) THEN <<s[1]>> \o RemoveWords(Tail(s), words)
    ELSE LET e == Min({q \in 2..(Len(s) + 1) : q = Len(s) + 1 \/ ~IsWord(s[q])})
             run == SubSeq(s, 1, e - 1)
         IN  (IF run \in words THEN <<>> ELSE run)
               \o RemoveWords(SubSeq(s, e, Len(s)), words)

\* _extract_key_terms(description)
ExtractKeyTerms(text) ==
    LET cleaned == RemoveWords(Lower(text), STOP_WORDS)
        words == SplitWhitespace(cleaned)
        stripped == [k \in 1..Len(words) |-> StripChars(words[k], PUNCTUATION)]
        key_words == SelectSeq(stripped, LAMBDA word : Len(word) > 2)
    IN  Join(Slice(key_words, 5), <<" ">>)

\* the term lists of _generate_verification_queries
TECHNICAL_TERMS ==
    {<<"e", "n", "g", "i", "n", "e">>,
     <<"p", "o", "w", "e", "r">>,
     <<"h", "o", "r", "s", "e", "p", "o", "w", "e", "r">>,
     <<"t", "h", "r", "u", "s", "t">>,
     <<"c", "o", "n", "v", "e", "r", "s", "i", "o", "n">>}
MANUFACTURER_TERMS ==
    {<<"g", "e", "9", "0">>,
     <<"b", "o", "e", "i", "n", "g">>,
     <<"a", "i", "r", "c", "r", "a", "f", "t">>,
     <<"e", "n", "g", "i", "n", "e">>}
FORMULA_TERMS ==
    {<<"c", "a", "l", "c", "u", "l", "a", "t", "i", "o", "n">>,
     <<"f", "o", "r", "m", "u", "l", "a">>,
     <<"c", "o", "n", "v", "e", "r", "s", "i", "o", "n">>}

\* any(term in description.lower() for term in terms)
AnyTermIn(text, terms) == \E term \in terms : Contains(Lower(text), term)

\* _generate_verification_queries(description)
GenerateVerificationQueries(text) ==
    LET key_terms == ExtractKeyTerms(text)
        direct == <<"verify check validate ">> \o text
        technical ==
            IF AnyTermIn(text, TECHNICAL_TERMS)
            THEN key_terms \o <<" technical specifications datasheet">>
            ELSE key_terms \o <<" technical specifications">>
        comparison == key_terms \o <<" multiple sources comparison">>
        official ==
            IF AnyTermIn(text, MANUFACTURER_TERMS)
            THEN key_terms \o <<" official manufacturer specifications">>
            ELSE IF AnyTermIn(text, FORMULA_TERMS)
            THEN key_terms \o <<" standard formula method">>
            ELSE key_terms \o <<" authoritative source">>
    IN  Slice(<<direct, technical, comparison, official>>, 4)

\* a numbering of the sources that starts at 0
SourceNumFromZero(done) == done

\* enumerate(queries, 1): the number of the source after done sources
SourceNum(done) == done + 1

\* the words the descriptions are made of: a stop word, a capitalised
\* manufacturer term, a term with punctuation, a technical term that is a
\* stop word too, a formula term, a word too short to be a key term, and a
\* word that is none of these
DescriptionWords ==
    {<<"v", "e", "r", "i", "f", "y">>,
     <<"G", "E", "9", "0">>,
     <<"e", "n", "g", "i", "n", "e", ".">>,
     <<"p", "o", "w", "e", "r">>,
     <<"f", "o", "r", "m", "u", "l", "a">>,
     <<"i", "s">>,
     <<"s", "p", "e", "e", "d">>}

MaxWords == 2

\* the descriptions: up to MaxWords words, a space between two words
RECURSIVE Phrases(_)
Phrases(n) ==
    IF n = 0 THEN {<<>>}
    ELSE Phrases(n - 1)
           \cup {IF p = <<>> THEN w ELSE p \o <<" ">> \o w :
                    p \in Phrases(n - 1), w \in DescriptionWords}
Descriptions == Phrases(MaxWords)

InitVerify ==
    /\ vPc = "idle"
    /\ sources = <<>>
    /\ report = NoValue
    /\ vDescription \in Descriptions
    /\ queries = <<>>
    /\ searched = <<>>
    /\ result_text = <<>>
    /\ numbers = NoList
    /\ pc = "idle"
    /\ max_iterations = 0
    /\ serpapi_key \in BOOLEAN
    /\ messages = <<>>
    /\ i = 0
    /\ ret = NoValue
    /\ completions = 0
    /\ calls = <<>>
    /\ unknown = 0
    /\ payload = <<>>
    /\ ParseIdle /\ SearchIdle /\ TextIdle /\ FormatIdle /\ CacheIdle
    /\ RegistryIdle /\ ChatIdle

\* verify_result(description): the queries are generated
VerifyStart ==
    /\ vPc = "idle"
    /\ vPc' = "searching"
    /\ queries' = GenerateVerificationQueries(vDescription)
    /\ UNCHANGED <<sources, report, vDescription, searched, result_text, numbers>>

\* one pass of the loop over the queries: web_search, or its exception kept
\* as a "Search failed: ..." result
VerifySourceOf(answers) ==
    /\ vPc = "searching"
    /\ Len(sources) < Len(queries)
    /\ \E o \in answers : sources' = Append(sources, o)
    /\ searched' = Append(searched, [query |-> queries[Len(sources) + 1],
                                      source_num |-> SourceNum(Len(sources))])
    /\ UNCHANGED <<vPc, report, vDescription, queries, result_text, numbers>>

VerifySource == VerifySourceOf(SourceOutcomes(serpapi_key))

\* the analysis of the results and the return, through the outer try
VerifyAnalyze ==
    /\ vPc = "searching"
    /\ Len(sources) = Len(queries)
    /\ \E r \in VerifyResult(sources) :
          /\ report' = r.val
          /\ vPc' = IF r.exc THEN "raised" ELSE "done"
    /\ UNCHANGED <<sources, vDescription, queries, searched, result_text, numbers>>

othersOfVerify ==
    <<runVars, parseVars, searchVars, textVars, formatVars, cacheVars, registryVars, chatVars>>

NextVerify ==
    \/ VerifyStart /\ UNCHANGED othersOfVerify
    \/ VerifySource /\ UNCHANGED othersOfVerify
    \/ VerifyAnalyze /\ UNCHANGED othersOfVerify

SpecVerify == InitVerify /\ [][NextVerify]_vars

\* a source that failed: its search raised, returned no result, or reported
\* that there is no provider
SourceFailed(o) ==
    \/ o.exc
    \/ o.val.t = "NoneType"
    \/ o.val = PyStr(NO_KEY)

Says(v, fragment) == \E k \in 1..Len(v.s) : v.s[k] = fragment

\* C18 as stated: verify_result never raises and returns a text; when every
\* source failed, the text is the report and its analysis says that no source
\* provided valid results.
C18_AllFailedIsInconclusive ==
    /\ vPc # "raised"
    /\ vPc = "done" =>
         /\ report.t = "str"
         /\ (\A k \in 1..Len(sources) : SourceFailed(sources[k])) =>
               /\ Says(report, "MULTI-SOURCE VERIFICATION REPORT\n")
               /\ Says(report, "No sources provided valid results")

\* how often the loop has handed the query to web_search
TimesSearched(q) ==
    Cardinality({k \in 1..Len(searched) : searched[k].query = q})

\* C30: one verify_result call makes one corroboration pass: at most 4
\* queries are derived from the description, and each is run through
\* web_search exactly once, in the order generated, as sources 1, 2, ..,
\* whatever the description says; the call then ends and searches no more.
C30_OnePass ==
    /\ [][(vPc = "idle" /\ vPc' # "idle") =>
            queries' = GenerateVerificationQueries(vDescription)]_vars
    /\ [](/\ Len(queries) <= 4
          /\ \A a, b \in 1..Len(queries) : queries[a] = queries[b] => a = b)
    /\ [](/\ Len(searched) <= Len(queries)
          /\ Len(sources) = Len(searched)
          /\ \A k \in 1..Len(searched) :
                searched[k] = [query |-> queries[k], source_num |-> k])
    /\ [](vPc \in {"done", "raised"} =>
            \A k \in 1..Len(queries) : TimesSearched(queries[k]) = 1)
    /\ [][(vPc = "done" \/ vPc = "raised") => (searched' = searched /\ vPc' = vPc)]_vars

\* a call about a capitalised engine name has returned: four queries, the
\* key terms in lower case without the full stop, each one searched once
C30_Witness ==
    /\ vPc = "done"
    /\ vDescription = <<"G", "E", "9", "0", " ", "e", "n", "g", "i", "n", "e", ".">>
    /\ Len(queries) = 4
    /\ queries[2] = <<"g", "e", "9", "0", " ", "e", "n", "g", "i", "n", "e",
                      " technical specifications datasheet">>
    /\ queries[4] = <<"g", "e", "9", "0", " ", "e", "n", "g", "i", "n", "e",
                      " official manufacturer specifications">>
    /\ Len(searched) = 4
    /\ \A k \in 1..4 : searched[k].query = queries[k] /\ searched[k].source_num = k
    /\ sources[2].exc

-----------------------------------------------------------------------------
(* tools/verify_result.py: the report over what the sources returned *)

\* texts the chain may return: one number; two numbers, one with a
\* thousands separator; a comma and no digit; no number; a text longer
\* than an excerpt
R_42 == DIRECT_ANSWER \o A_42
R_pair ==
    INFO \o <<"1", ",", "2", "5", "0", " ", "o", "r", " ", "3", ".", "5">>
R_comma ==
    ANSWER \o <<"a", ",", " ", "b">>
R_plain ==
    INFO \o <<"n", "o", "n", "e">>
R_long == [k \in 1..(EXCERPT_LEN + 1) |-> "x"]
ReportTexts == {R_42, R_pair, R_comma, R_plain, R_long}

\* what web_search(query) may do for one source of the report
ReportOutcomes(key) ==
    {WebSearch(key, c) : c \in {ChainExhausted} \cup {PyStr(t) : t \in ReportTexts}}
      \cup {Raises}

InitReport ==
    /\ vPc = "idle"
    /\ sources = <<>>
    /\ report = NoValue
    /\ vDescription = <<"G", "E", "9", "0">>
    /\ queries = <<>>
    /\ searched = <<>>
    /\ result_text = <<>>
    /\ numbers = NoList
    /\ serpapi_key \in BOOLEAN
    /\ pc = "idle"
    /\ max_iterations = 0
    /\ messages = <<>>
    /\ i = 0
    /\ ret = NoValue
    /\ completions = 0
    /\ calls = <<>>
    /\ unknown = 0
    /\ payload = <<>>
    /\ ParseIdle /\ SearchIdle /\ TextIdle /\ FormatIdle /\ CacheIdle
    /\ RegistryIdle /\ ChatIdle

NextReport ==
    \/ VerifyStart /\ UNCHANGED othersOfVerify
    \/ VerifySourceOf(ReportOutcomes(serpapi_key)) /\ UNCHANGED othersOfVerify
    \/ VerifyAnalyze /\ UNCHANGED othersOfVerify

SpecReport == InitReport /\ [][NextReport]_vars

\* the source returned a text of the search: no exception, not None, and
\* not the text that says there is no provider
Usable(o) == ~o.exc /\ o.val.t = "str" /\ o.val # PyStr(NO_KEY)

\* the numeric tokens of the sources that returned a text
TokensFound ==
    UNION {{FindNumbers(sources[k].val.s)[n] : n \in 1..Len(FindNumbers(sources[k].val.s))} :
              k \in {j \in 1..Len(sources) : Usable(sources[j])}}

CONSISTENT == "Results show some consistency across sources\n"
VARIATION ==
    "Results show significant variation - this is normal for complex specifications\n"

\* C31 as stated: when numeric tokens were found across the valid sources,
\* the report says the results are consistent iff there are at most 3
\* distinct tokens, and says expected variation otherwise; it is not a
\* report of a failed verification in either case.
C31_ConsensusNote ==
    (vPc = "done" /\ TokensFound # {}) =>
        /\ Says(report, CONSISTENT) <=> Cardinality(TokensFound) <= 3
        /\ Says(report, VARIATION) <=> Cardinality(TokensFound) > 3
        /\ ~Says(report, "Multi-source verification failed: ")
        /\ ~Says(report, "No sources provided valid results")

\* C33 as stated: without a provider credential no source is counted as
\* valid and the report does not say that the result was verified.
C33_NoKeyNotVerified ==
    (vPc = "done" /\ ~serpapi_key) =>
        /\ ~Says(report, "Successfully verified with sources")
        /\ ~Says(report, "Only one source provided results")
        /\ ~Says(report, "Excerpt: ")

\* C34 as stated: whenever a source returned usable text, the report holds
\* the section of that source and its excerpt, whatever the others returned.
C34_UsableSourceShown ==
    vPc = "done" =>
        \A k \in 1..Len(sources) :
            Usable(sources[k]) =>
                /\ report.t = "str"
                /\ Contains(report.s, <<"Source ", SourceNumber(k), ":\n">>)
                /\ Contains(report.s,
                            <<"Excerpt: ">> \o Excerpt(sources[k].val.s) \o <<"\n">>)

-----------------------------------------------------------------------------
(* tools/verify_result.py: the number pattern on one result text *)

MaxChars == 4

\* the characters of the result texts: a digit, the two separators the
\* pattern knows, and a letter
NumberAlphabet == {"7", ",", ".", "a"}

NumberTexts == UNION {[1..n -> NumberAlphabet] : n \in 0..MaxChars}

InitNumbers ==
    /\ vPc = "idle"
    /\ sources = <<>>
    /\ report = NoValue
    /\ vDescription = <<>>
    /\ queries = <<>>
    /\ searched = <<>>
    /\ result_text \in NumberTexts
    /\ numbers = NoList
    /\ RunIdle /\ ParseIdle /\ SearchIdle /\ TextIdle /\ FormatIdle /\ CacheIdle
    /\ RegistryIdle /\ ChatIdle

\* numbers = re.findall(r'[\d,]+\.?\d*', result['result'])
FindAll ==
    /\ ~numbers.done
    /\ numbers' = [done |-> TRUE, list |-> FindNumbers(result_text)]
    /\ UNCHANGED <<vPc, sources, report, vDescription, queries, searched, result_text>>

NextNumbers == FindAll /\ UNCHANGED othersOfVerify

SpecNumbers == InitNumbers /\ [][NextNumbers]_vars

\* how often the character occurs in the token
Occurrences(token, c) == Cardinality({p \in 1..Len(token) : token[p] = c})

\* C32 as stated: every token the extraction produced is a digit group: it
\* holds at least one digit, besides digits only thousands separators and
\* at most one decimal point.
C32_TokensAreDigitGroups ==
    numbers.done =>
        \A n \in 1..Len(numbers.list) :
            LET token == numbers.list[n]
            IN  /\ \E p \in 1..Len(token) : token[p] \in Digits
                /\ \A p \in 1..Len(token) : token[p] \in Digits \cup {",", "."}
                /\ Occurrences(token, ".") <= 1

-----------------------------------------------------------------------------
(* The calculator as the agent loop calls it, checked under Spec *)

\* C19 as stated: a cycle that invokes the calculator always gets a text back
\* from it, the string of the value or a text starting with "Error: ": the
\* cycle appends that observation and the loop goes on.
C19_CalculatorNeverRaises ==
    [][(/\ Len(calls') = Len(calls) + 1
        /\ calls'[Len(calls')].name = T_calculator)
       => (/\ pc' = "loop"
           /\ messages'[Len(messages')].role = "user"
           /\ messages'[Len(messages')].content[1] = "Observation: "
           /\ \/ Tail(messages'[Len(messages')].content) = V_5
              \/ StartsWithAt(Tail(messages'[Len(messages')].content), 1, ERROR_PREFIX))]_vars

\* the names the calculator gives to eval
ALLOWED_NAMES ==
    {<<"a", "b", "s">>, <<"r", "o", "u", "n", "d">>, <<"m", "i", "n">>,
     <<"m", "a", "x">>, <<"p", "o", "w">>}

\* where the identifiers of an expression start, and the identifier there
IdentifierStarts(e) ==
    {p \in 1..Len(e) :
        /\ IsWord(e[p]) /\ e[p] \notin Digits
        /\ (p = 1 \/ ~IsWord(e[p - 1]))}
IdentifierAt(e, p) ==
    SubSeq(e, p, Max({q \in p..Len(e) : \A r \in p..q : IsWord(e[r])}))
UsesOtherIdentifier(e) ==
    \E p \in IdentifierStarts(e) : IdentifierAt(e, p) \notin ALLOWED_NAMES

\* C26 as stated: a calculator call whose input uses an identifier other than
\* abs, round, min, max, pow (an attribute of a literal, a statement's
\* keyword) gets back a text starting with "Error: ", and nothing else: no
\* value computed from such an input and no exception.
C26_HardBoundary ==
    [][(/\ Len(calls') = Len(calls) + 1
        /\ calls'[Len(calls')].name = T_calculator
        /\ UsesOtherIdentifier(calls'[Len(calls')].input))
       => (/\ pc' = "loop"
           /\ messages'[Len(messages')].role = "user"
           /\ messages'[Len(messages')].content[1] = "Observation: "
           /\ StartsWithAt(Tail(messages'[Len(messages')].content), 1, ERROR_PREFIX))]_vars

-----------------------------------------------------------------------------
(* The cycles of the agent loop, checked under Spec *)

\* C27: a cycle whose output holds no 'Final Answer:' and no match of the
\* action pattern appends the assistant turn and nothing else, invokes no
\* tool, raises nothing and leaves the run in its loop; and a run in its
\* loop requests a completion next when the bound is not reached, and
\* returns the sentinel without one when it is.
C27_NoActionContinues ==
    /\ [][(/\ pc = "loop"
           /\ Len(messages') > Len(messages)
           /\ ~Marked(messages'[Len(messages) + 1].content)
           /\ ~ReSearchAction(messages'[Len(messages) + 1].content).ok)
          => (/\ messages'[Len(messages) + 1].role = "assistant"
              /\ messages' = Append(messages, messages'[Len(messages) + 1])
              /\ calls' = calls
              /\ unknown' = unknown
              /\ pc' = "loop"
              /\ i' = i + 1
              /\ completions' = completions + 1)]_vars
    /\ [][pc = "loop" =>
            IF i < max_iterations
            THEN completions' = completions + 1 /\ Len(messages') > Len(messages)
            ELSE completions' = completions /\ messages' = messages
                 /\ pc' = "done" /\ ret' = SENTINEL]_vars

\* a malformed action, then a thought with no action: two completions, no
\* tool, no observation, and the run in its loop with a cycle to go
C27_Witness ==
    /\ pc = "loop"
    /\ i < max_iterations
    /\ completions = 2
    /\ messages = <<Turn("system", SYSTEM_PROMPT), Turn("user", QUESTION),
                    Turn("assistant", TX_malformed), Turn("assistant", TX_thought)>>
    /\ calls = <<>>
    /\ unknown = 0

\* the first n turns of a transcript
Prefix(transcript, n) == SubSeq(transcript, 1, n)

\* C28: within one run the transcript is append-only: it starts as exactly
\* the system turn and the user turn holding the question, every step
\* leaves the transcript it found as a prefix of the one it leaves, so no
\* turn is modified after being appended, and each completion request is
\* made over the whole transcript built so far, its answer appended right
\* after the turns that were sent.
C28_AppendOnly ==
    /\ [][(pc = "idle" /\ pc' = "loop") =>
            messages' = <<Turn("system", SYSTEM_PROMPT), Turn("user", QUESTION)>>]_vars
    /\ [][pc = "loop" =>
            /\ Len(messages') >= Len(messages)
            /\ Prefix(messages', Len(messages)) = messages]_vars
    /\ [][completions' = completions + 1 =>
            /\ payload' = messages
            /\ Len(messages') > Len(messages)
            /\ messages'[Len(messages) + 1].role = "assistant"]_vars

\* a run of three completions has ended: the last request carried the seed,
\* the two earlier answers and the observation in between, and the
\* transcript is that request followed by the last answer
C28_Witness ==
    /\ pc = "done"
    /\ completions = 3
    /\ Len(messages) = 6
    /\ payload = Prefix(messages, 5)
    /\ Prefix(payload, 2) = <<Turn("system", SYSTEM_PROMPT), Turn("user", QUESTION)>>
    /\ payload[3].role = "assistant"
    /\ payload[4].role = "user"
    /\ payload[5].role = "assistant"
    /\ messages[6].role = "assistant"

\* the assistant turn a cycle has just appended to the transcript it found
Answered(before, after) == after[Len(before) + 1].content

\* the observation turns a tool that came back can leave for an action
Observations(a, key) ==
    {Turn("user", ObservationText(o.val)) :
        o \in {r \in ToolOutcomes(a.tool_name, a.tool_input, key) : ~r.exc}}

\* C29: in a cycle whose output has no final-answer marker and whose action
\* names a registered tool, exactly one tool is invoked, once, with the
\* tool and the trimmed input of the first action match, and exactly one
\* user turn "Observation: " + result is appended right after the
\* assistant turn, the run staying in its loop for the next request.
C29_OneCallOneObservation ==
    [][(/\ completions' = completions + 1
        /\ ClassOf[Answered(messages, messages')] = "action"
        /\ ActionOf[Answered(messages, messages')].tool_name \in Tools)
       => LET a == ActionOf[Answered(messages, messages')]
          IN  /\ calls' = Append(calls, [name |-> a.tool_name, input |-> a.tool_input])
              /\ Len(messages') = Len(messages) + 2
              /\ messages'[Len(messages) + 2] \in Observations(a, serpapi_key)
              /\ pc' = "loop"
              /\ completions' = Len(calls') + unknown'
                                  + Cardinality({k \in 1..Len(messages') :
                                        /\ messages'[k].role = "assistant"
                                        /\ ClassOf[messages'[k].content] # "action"})]_vars

-----------------------------------------------------------------------------
(* tools/text_analyzer.py (and the copy in react_agent.py) *)

\* the longest generated text
MaxText == 4

HELLO_WORLD ==
    <<"H", "e", "l", "l", "o", " ", "w", "o", "r", "l", "d", ".">>
W_Hello ==
    <<"H", "e", "l", "l", "o">>
W_world_dot ==
    <<"w", "o", "r", "l", "d", ".">>

UpperLetters ==
    {"A", "B", "C", "D", "E", "F", "G", "H", "I", "J", "K", "L", "M",
     "N", "O", "P", "Q", "R", "S", "T", "U", "V", "W", "X", "Y", "Z"}
\* c.isupper() / c.islower()
IsUpper(c) == c \in UpperLetters
IsLower(c) == c \in Letters \ UpperLetters

\* a maximum that keeps the last of the longest words
RECURSIVE LongestWordLast(_)
LongestWordLast(words) ==
    IF words = <<>> THEN <<>>
    ELSE LET best == LongestWordLast(Tail(words))
         IN  IF Tail(words) # <<>> /\ Len(best) >= Len(words[1]) THEN best ELSE words[1]

\* max(words, key=len) if words else "": the first of the longest words
RECURSIVE LongestWord(_)
LongestWord(words) ==
    IF words = <<>> THEN <<>>
    ELSE LET best == LongestWord(Tail(words))
         IN  IF Tail(words) # <<>> /\ Len(best) > Len(words[1]) THEN best ELSE words[1]

\* len([x for x in items if keep(x)]), for the kept positions
Count(S) == Cardinality(S)

\* round(word_count / sentence_count, 1), in tenths; round goes to the even
\* tenth on a tie, and the ties of these quotients are exact in binary
AvgTenths(word_count, sentence_count) ==
    IF sentence_count = 0 THEN 0
    ELSE LET twenty == 20 * word_count
             q == twenty \div (2 * sentence_count)
             r == twenty % (2 * sentence_count)
         IN  IF r < sentence_count THEN q
             ELSE IF r > sentence_count THEN q + 1
             ELSE IF q % 2 = 0 THEN q ELSE q + 1

\* the figures of the report text_analyzer returns
TextStats(t) ==
    LET words == SplitWhitespace(t)
        sentences == Split(t, <<".">>)
        word_count == Len(words)
        sentence_count == Count({k \in 1..Len(sentences) : Strip(sentences[k]) # <<>>})
        longest_word == LongestWord(words)
    IN  [done |-> TRUE,
         word_count |-> word_count,
         sentence_count |-> sentence_count,
         char_count |-> Len(t),
         char_count_no_spaces |-> Len(Replace(t, <<" ">>, <<>>)),
         longest_word |-> longest_word,
         longest_len |-> Len(longest_word),
         uppercase_count |-> Count({k \in 1..Len(t) : IsUpper(t[k])}),
         lowercase_count |-> Count({k \in 1..Len(t) : IsLower(t[k])}),
         avg_words_per_sentence |-> AvgTenths(word_count, sentence_count)]

Alphabet == {"a", "B", " ", ".", "\n"}

Texts ==
    {HELLO_WORLD} \cup UNION {[1..n -> Alphabet] : n \in 0..MaxText}

InitText ==
    /\ ta_text \in Texts
    /\ analysis = NotAnalyzed
    /\ RunIdle /\ ParseIdle /\ SearchIdle /\ VerifyIdle /\ FormatIdle /\ CacheIdle
    /\ RegistryIdle /\ ChatIdle

\* text_analyzer(text)
AnalyzeText ==
    /\ analysis = NotAnalyzed
    /\ analysis' = TextStats(ta_text)
    /\ UNCHANGED <<ta_text, runVars, parseVars, searchVars, verifyVars, formatVars,
                   cacheVars,
                   registryVars, chatVars>>

NextText == AnalyzeText

SpecText == InitText /\ [][NextText]_vars

\* where the whitespace-delimited tokens of a text start, and the token there
TokenStarts(t) ==
    {p \in 1..Len(t) : ~IsSpace(t[p]) /\ (p = 1 \/ IsSpace(t[p - 1]))}
TokenAt(t, p) ==
    SubSeq(t, p, Max({q \in p..Len(t) : \A r \in p..q : ~IsSpace(t[r])}))
\* the '.'-delimited segments of a text that hold more than whitespace, by
\* the delimiter (or the start of the text, 0) before them
Delimiters(t) == {0} \cup {p \in 1..Len(t) : t[p] = "."}
NonEmptySegments(t) ==
    {d \in Delimiters(t) :
        \E p \in (d + 1)..Len(t) :
            /\ ~IsSpace(t[p])
            /\ \A r \in (d + 1)..p : t[r] # "."}

\* the counting rules of the report: tokens, non-empty segments, and the first
\* token of maximal length
CountingRules ==
    /\ analysis.word_count = Cardinality(TokenStarts(ta_text))
    /\ analysis.sentence_count = Cardinality(NonEmptySegments(ta_text))
    /\ analysis.longest_len = Len(analysis.longest_word)
    /\ IF TokenStarts(ta_text) = {} THEN analysis.longest_word = <<>>
       ELSE \E p \in TokenStarts(ta_text) :
               /\ analysis.longest_word = TokenAt(ta_text, p)
               /\ \A q \in TokenStarts(ta_text) :
                    /\ Len(TokenAt(ta_text, q)) <= Len(TokenAt(ta_text, p))
                    /\ q < p => Len(TokenAt(ta_text, q)) < Len(TokenAt(ta_text, p))

\* C20 as stated: the counting rules, and for 'Hello world.' word count 2,
\* sentence count 1 and longest word 'Hello' with 5 characters.
C20_HelloIsLongest ==
    analysis.done =>
        /\ CountingRules
        /\ ta_text = HELLO_WORLD =>
              /\ analysis.word_count = 2
              /\ analysis.sentence_count = 1
              /\ analysis.longest_word = W_Hello
              /\ analysis.longest_len = 5

\* C20 amended: the counting rules, and for 'Hello world.' word count 2,
\* sentence count 1 and longest word 'world.' with 6 characters, a token
\* keeping the punctuation that is attached to it.
C20_WorldDotIsLongest ==
    analysis.done =>
        /\ CountingRules
        /\ ta_text = HELLO_WORLD =>
              /\ analysis.word_count = 2
              /\ analysis.sentence_count = 1
              /\ analysis.longest_word = W_world_dot
              /\ analysis.longest_len = 6

C20_Witness ==
    /\ ta_text = HELLO_WORLD
    /\ analysis.done
    /\ analysis.word_count = 2
    /\ analysis.longest_word = W_world_dot

-----------------------------------------------------------------------------
(* The sweeper and a process that asks it to stop *)

\* the process asks the sweeper to stop, once
StopSignal ==
    /\ ~stop
    /\ stop' = TRUE
    /\ UNCHANGED <<now, conversation_cache, saved, db, swPc, current_time, snapshot,
                   wake, digests, recipient_email, sent, event, combined_messages, reads>>

NextSweepStop ==
    \/ NextSweep
    \/ StopSignal /\ UNCHANGED othersOfCache

SpecSweepStop == InitSweep /\ [][NextSweepStop]_vars

\* C21 as stated (a form a finite run refutes): once the stop signal is
\* issued, the sweep loop starts no further tick: the tick that is under way
\* may end, and the loop does not leave its sleep for another one.
C21_StopEndsSweep ==
    [][stop => ~(swPc = "sleeping" /\ swPc' = "scanning")]_vars

-----------------------------------------------------------------------------
(* The sweeper under the scheduling of the event loop *)

\* the step check_inactive_chats is at: the event loop resumes the task when
\* what it awaits is done (the summary came back, the sleep is over), and
\* between two awaits the task runs on
SweeperStep ==
    \/ SweepTick
    \/ \E query_ok \in BOOLEAN, email \in BOOLEAN : SweepExamine(query_ok, email)
    \/ \E summary_ok \in BOOLEAN, delivered \in BOOLEAN : SweepResume(summary_ok, delivered)
    \/ SweepSleep

\* the messages all have one content: what a message says plays no part in
\* the scheduling
NextSweepFair ==
    \/ \E chat_id \in ChatIds, persisted \in BOOLEAN :
         SaveMessage(chat_id, "user", "hi", persisted) /\ UNCHANGED othersOfCache
    \/ Advance /\ UNCHANGED othersOfCache
    \/ SweeperStep /\ UNCHANGED othersOfCache

SpecSweepFair ==
    InitSweep /\ [][NextSweepFair]_vars /\ WF_vars(SweeperStep /\ UNCHANGED othersOfCache)

\* the session is among those the tick has still to examine
InSnapshot(c) == \E k \in 1..Len(snapshot) : snapshot[k] = c

\* what the sweeper prints when the processing of a session failed
Failures == {"error_processing", "error_sending", "sent_error_summary"}

\* C22: a pass of the for loop that failed (the history query raised, the
\* summary came back as an error, the email could not be sent) leaves the
\* loop scanning the rest of the sessions of the tick, the sweeper never
\* stops on an error, every session of a tick is examined in that tick
\* whatever happened to the sessions before it, every tick ends, and the next
\* one starts once its time has come.
C22_FailureDoesNotBlock ==
    /\ [][(/\ swPc \in {"scanning", "awaiting"} /\ snapshot # <<>>
            /\ (snapshot' # snapshot \/ swPc' # swPc)
            /\ event' \in Failures)
           => (swPc' = "scanning" /\ snapshot' = Tail(snapshot))]_vars
    /\ [](swPc # "raised")
    /\ \A c \in ChatIds : InSnapshot(c) ~> ~InSnapshot(c)
    /\ (swPc # "sleeping") ~> (swPc = "sleeping")
    /\ (swPc = "sleeping" /\ now >= wake) ~> (swPc = "scanning")

\* the first session of the tick was idle and is still cached: its history
\* query raised; the tick went on to the second, whose summary is awaited
C22_Witness ==
    /\ swPc = "awaiting" /\ event = "summarizing"
    /\ Len(snapshot) = 1
    /\ Len(conversation_cache) = 2
    /\ conversation_cache[1].chat_id # Head(snapshot)
    /\ Idle(conversation_cache[1].last_message_time, current_time)

-----------------------------------------------------------------------------
(* The emails of the sweeper, checked under SpecSweep *)

\* C23: send_email is called only while a session with a resolved recipient
\* is processed, with that recipient, once, in the step that removes the
\* session; a summary is requested only with a resolved recipient; and a
\* session removed with no recipient resolved gets no summary and no email.
C23_SinkOnlyWithRecipient ==
    /\ [][sent' # sent =>
            /\ swPc = "awaiting" /\ recipient_email # ""
            /\ sent' = Append(sent, [to |-> recipient_email, chat_id |-> Head(snapshot)])
            /\ CacheIndex(conversation_cache', Head(snapshot)) = 0]_vars
    /\ [][digests' # digests =>
            /\ recipient_email' # ""
            /\ Len(digests') = Len(digests) + 1
            /\ digests'[Len(digests')].chat_id = Head(snapshot)]_vars
    /\ [][\A c \in ChatIds :
            (/\ CacheIndex(conversation_cache, c) # 0
             /\ CacheIndex(conversation_cache', c) = 0
             /\ recipient_email' = "")
            => (digests' = digests /\ sent' = sent)]_vars
    /\ [](/\ Len(sent) = IF swPc = "awaiting" THEN Len(digests) - 1 ELSE Len(digests)
          /\ \A k \in 1..Len(sent) : sent[k].chat_id = digests[k].chat_id)

\* one tick removed both sessions: an email for the one with a recipient,
\* none for the other
C23_Witness ==
    /\ conversation_cache = <<>>
    /\ Len(saved) = 2 /\ saved[1].chat_id # saved[2].chat_id
    /\ Len(sent) = 1 /\ Len(digests) = 1
    /\ sent[1].to = ADDRESS
    /\ event = "no_recipient"

-----------------------------------------------------------------------------
(* ReActAgent.add_tool and the registry self.tools *)

\* {'function': func, 'description': description}
Entry(func, description) == [function |-> func, description |-> description]

\* a registration that keeps what the name was first registered with
AddToolKeepFirst(registry, name, func, description) ==
    [n \in DOMAIN registry \cup {name} |->
        IF n \in DOMAIN registry THEN registry[n] ELSE Entry(func, description)]

\* self.tools[name] = {'function': func, 'description': description}
AddTool(registry, name, func, description) ==
    [n \in DOMAIN registry \cup {name} |->
        IF n = name THEN Entry(func, description) ELSE registry[n]]

\* self.tools after __init__: _register_default_tools
DefaultTools ==
    AddTool(AddTool(AddTool(AddTool(NoTools,
        T_calculator, "calculator", "Evaluates mathematical expressions"),
        T_web_search, "web_search", "Searches the web for current information"),
        T_text_analyzer, "text_analyzer", "Analyzes text statistics and insights"),
        T_verify_result, "verify_result", "Verifies if results are reasonable and accurate")

\* the arguments add_tool is called with
ToolNames == {T_calculator, T_web_search, T_lookup}
ToolFunctions == {"calculator", "web_search"}
ToolDescriptions ==
    {"Evaluates mathematical expressions", "Searches the web for current information"}

InitRegistry ==
    /\ tools = DefaultTools
    /\ last_call = NoCall
    /\ RunIdle /\ ParseIdle /\ SearchIdle /\ VerifyIdle /\ TextIdle /\ FormatIdle /\ CacheIdle
    /\ ChatIdle

\* agent.add_tool(name, func, description)
AddToolCall(name, func, description) ==
    /\ tools' = AddTool(tools, name, func, description)
    /\ last_call' = [name |-> name, function |-> func, description |-> description]
    /\ UNCHANGED <<runVars, parseVars, searchVars, verifyVars, textVars, formatVars, cacheVars,
                   chatVars>>

NextRegistry ==
    \E name \in ToolNames, func \in ToolFunctions, description \in ToolDescriptions :
        AddToolCall(name, func, description)

SpecRegistry == InitRegistry /\ [][NextRegistry]_vars

\* C24: after add_tool(name, fn, description) the registry maps name to
\* exactly (fn, description), also when the name was registered before (the
\* last registration wins); the call leaves every other name as it was and
\* adds no name but its own; and registering a triple a second time changes
\* nothing.
C24_IdempotentOverwrite ==
    /\ [](last_call # NoCall =>
            /\ last_call.name \in DOMAIN tools
            /\ tools[last_call.name] = [function |-> last_call.function,
                                        description |-> last_call.description])
    /\ [][/\ DOMAIN tools' = DOMAIN tools \cup {last_call'.name}
          /\ \A n \in DOMAIN tools : n # last_call'.name => tools'[n] = tools[n]]_vars
    /\ [](\A name \in ToolNames, func \in ToolFunctions, description \in ToolDescriptions :
            LET once == AddTool(tools, name, func, description)
            IN  AddTool(once, name, func, description) = once)

\* the calculator was registered again with another function, and a new name
\* was added after that
C24_Witness ==
    /\ tools[T_calculator] = Entry("web_search", "Searches the web for current information")
    /\ last_call.name = T_lookup
    /\ T_lookup \in DOMAIN tools
    /\ tools[T_web_search] = DefaultTools[T_web_search]

-----------------------------------------------------------------------------
(* main.py: the /chat endpoint.  chat is a coroutine with no await in it, and
   run is a plain function: the event loop runs one handler to its end before
   it starts the next, and the handlers share the agent get_agent built *)

\* self.max_iterations = 10
DEFAULT_MAX_ITERATIONS == 10

\* Optional[int]: an integer, or None
PyInt(n) == [t |-> "int", n |-> n]
NoInt == [t |-> "NoneType", n |-> 0]

\* if request.max_iterations:
Truthy(v) == v.t = "int" /\ v.n # 0

\* the bounds and messages the requests come with
RequestBounds == {NoInt, PyInt(0), PyInt(1), PyInt(2)}
CHAT_MESSAGES == << <<"What is AI?">>, <<"What is 25 * 17 + 48?">> >>
\* what the model answers in these runs: a thought with no action, or a
\* final answer
ChatTexts == {TX_thought, TX_final}

NoResponse == [done |-> FALSE]

\* two requests have been sent; the agent is as get_agent builds it
InitChat ==
    /\ \E bounds \in [1..2 -> RequestBounds] :
         chat_requests = [r \in 1..2 |-> [message |-> CHAT_MESSAGES[r],
                                          max_iterations |-> bounds[r]]]
    /\ serving = 0
    /\ responses = [r \in 1..2 |-> NoResponse]
    /\ pc = "idle"
    /\ max_iterations = DEFAULT_MAX_ITERATIONS
    /\ serpapi_key = FALSE
    /\ messages = <<>>
    /\ i = 0
    /\ ret = NoValue
    /\ completions = 0
    /\ calls = <<>>
    /\ unknown = 0
    /\ payload = <<>>
    /\ ParseIdle /\ SearchIdle /\ VerifyIdle /\ TextIdle /\ FormatIdle /\ CacheIdle
    /\ RegistryIdle

\* chat(request) up to the first completion of agent.run(request.message):
\* the bound of the shared agent is set when the request gives a truthy
\* one, and run seeds its transcript
ChatBegin(r) ==
    /\ serving = 0 /\ pc = "idle"
    /\ ~responses[r].done
    /\ serving' = r
    /\ max_iterations' = IF Truthy(chat_requests[r].max_iterations)
                         THEN chat_requests[r].max_iterations.n
                         ELSE max_iterations
    /\ pc' = "loop"
    /\ messages' = <<Turn("system", SYSTEM_PROMPT), Turn("user", chat_requests[r].message)>>
    /\ UNCHANGED <<serpapi_key, i, ret, completions, calls, unknown, payload, chat_requests, responses>>

\* run returned: the ChatResponse is sent, and the locals of run are gone
ChatReturn ==
    /\ serving # 0 /\ pc = "done"
    /\ responses' = [responses EXCEPT ![serving] =
                        [done |-> TRUE, response |-> ret, completions |-> completions,
                         transcript |-> messages]]
    /\ serving' = 0
    /\ pc' = "idle"
    /\ messages' = <<>>
    /\ i' = 0
    /\ ret' = NoValue
    /\ completions' = 0
    /\ calls' = <<>>
    /\ unknown' = 0
    /\ payload' = <<>>
    /\ UNCHANGED <<max_iterations, serpapi_key, chat_requests>>

othersOfChat ==
    <<parseVars, searchVars, verifyVars, textVars, formatVars, cacheVars, registryVars>>

NextChat ==
    \/ \E r \in 1..2 : ChatBegin(r) /\ UNCHANGED othersOfChat
    \/ \E text \in ChatTexts :
         CycleFinal(text) /\ UNCHANGED <<othersOfChat, chatVars>>
    \/ \E text \in ChatTexts :
         CycleNoAction(text) /\ UNCHANGED <<othersOfChat, chatVars>>
    \/ RunExhausted /\ UNCHANGED <<othersOfChat, chatVars>>
    \/ ChatReturn /\ UNCHANGED othersOfChat

SpecChat == InitChat /\ [][NextChat]_vars

\* the bound a request runs with when it is the only one: its own when it
\* gives a truthy one, else the one the agent was built with
SoloBound(r) ==
    IF Truthy(chat_requests[r].max_iterations)
    THEN chat_requests[r].max_iterations.n
    ELSE DEFAULT_MAX_ITERATIONS

\* C25 as stated: of two runs under way together, each has a transcript made
\* of its own seed turns and its own outputs, and its result and number of
\* completion calls are what they are when it runs alone, whichever of the
\* two the server takes first: a run that ends without a final answer has
\* made exactly as many completion calls as its bound when alone.
C25_RunsIndependent ==
    \A r \in 1..Len(responses) :
        responses[r].done =>
            /\ responses[r].transcript[1] = Turn("system", SYSTEM_PROMPT)
            /\ responses[r].transcript[2] = Turn("user", CHAT_MESSAGES[r])
            /\ \A k \in 3..Len(responses[r].transcript) :
                  responses[r].transcript[k].role = "assistant"
            /\ responses[r].completions = Len(responses[r].transcript) - 2
            /\ responses[r].completions <= SoloBound(r)
            /\ responses[r].response = SENTINEL =>
                  responses[r].completions = SoloBound(r)


-----------------------------------------------------------------------------
(* utils/helpers.py: get_chat_history next to save_message and the sweeper *)

MaxReads == 2

\* the merge without the filter on the ids the query returned
CombineAll(db_message_dicts, cached_messages) == db_message_dicts \o cached_messages

\* combined_messages = db_message_dicts + new_cached_messages, the cached
\* messages whose id is not among the rows of the query
Combine(db_message_dicts, cached_messages) ==
    LET db_message_ids == {db_message_dicts[k].id : k \in 1..Len(db_message_dicts)}
        new_cached_messages ==
            SelectSeq(cached_messages, LAMBDA msg : msg.id \notin db_message_ids)
    IN  db_message_dicts \o new_cached_messages

\* get_chat_history(chat_id, pluggr_id), a coroutine with no await: it runs
\* while the sweeper is suspended.  own: pluggr_id is the one the messages of
\* the chat were saved with, so that the filter of the query lets its rows
\* through; query_ok: the query did not raise.  The session of chat_id is set
\* to a new dict; the sweeper, suspended in the pass over this session, has
\* read the old one already and removes the session by its key.
GetChatHistory(chat_id, own, query_ok) ==
    /\ swPc \in {"sleeping", "awaiting"}
    /\ reads < MaxReads
    /\ reads' = reads + 1
    /\ IF ~query_ok
       THEN /\ combined_messages' = NoHistory
            /\ UNCHANGED conversation_cache
       ELSE LET db_message_dicts == IF own THEN Rows(chat_id) ELSE <<>>
                k == CacheIndex(conversation_cache, chat_id)
                cached_messages == IF k = 0 THEN <<>> ELSE conversation_cache[k].messages
                combined == Combine(db_message_dicts, cached_messages)
                entry == [chat_id |-> chat_id, messages |-> combined,
                          last_message_time |-> now]
            IN  /\ conversation_cache' =
                       IF k = 0 THEN Append(conversation_cache, entry)
                       ELSE [conversation_cache EXCEPT ![k] = entry]
                /\ combined_messages' =
                       [returned |-> TRUE, chat_id |-> chat_id, messages |-> combined]
    /\ UNCHANGED <<now, saved, db, swPc, current_time, snapshot, wake, digests,
                   recipient_email, sent, event, stop>>

\* one chat, written and read by its visitor: a second session would be in
\* the cache next to it and play no part in what the calls for this one do
NextHistory ==
    \/ \E persisted \in BOOLEAN :
         SaveMessage("c1", "user", "hi", persisted) /\ UNCHANGED othersOfCache
    \/ \E own \in BOOLEAN, query_ok \in BOOLEAN :
         GetChatHistory("c1", own, query_ok) /\ UNCHANGED othersOfCache
    \/ Advance /\ UNCHANGED othersOfCache
    \/ SweepTick /\ UNCHANGED othersOfCache
    \/ \E query_ok \in BOOLEAN, email \in BOOLEAN :
         SweepExamine(query_ok, email) /\ UNCHANGED othersOfCache
    \/ \E summary_ok \in BOOLEAN, delivered \in BOOLEAN :
         SweepResume(summary_ok, delivered) /\ UNCHANGED othersOfCache
    \/ SweepSleep /\ UNCHANGED othersOfCache

SpecHistory == InitSweep /\ [][NextHistory]_vars


\* how many messages of the list have the id
TimesIn(messages_, id) == Cardinality({k \in 1..Len(messages_) : messages_[k].id = id})

\* the session that the cache will hold for the chat, if any
NextSession(chat_id) ==
    conversation_cache'[CacheIndex(conversation_cache', chat_id)]

\* C35: whatever save_message and get_chat_history calls were made, with the
\* writes and the queries succeeding or failing, no cached list holds two
\* messages with one id; the message that a save_message call appends is in the
\* cached list of its session once; and a message of a cached list is once in
\* the list of its session after every step that leaves the session in the
\* cache, that is until the sweeper removes the session.
C35_MergedOnce ==
    /\ [](\A k \in 1..Len(conversation_cache) :
            \A j \in 1..Len(conversation_cache[k].messages) :
                TimesIn(conversation_cache[k].messages,
                        conversation_cache[k].messages[j].id) = 1)
    /\ [][Len(saved') > Len(saved) =>
            LET m == saved'[Len(saved')]
            IN  /\ CacheIndex(conversation_cache', m.chat_id) # 0
                /\ TimesIn(NextSession(m.chat_id).messages, m.id) = 1]_vars
    /\ [][\A k \in 1..Len(conversation_cache) :
            LET entry == conversation_cache[k]
            IN  CacheIndex(conversation_cache', entry.chat_id) # 0 =>
                    \A j \in 1..Len(entry.messages) :
                        TimesIn(NextSession(entry.chat_id).messages,
                                entry.messages[j].id) = 1]_vars

\* get_chat_history has merged the rows of a session with a cached list that
\* holds a persisted message and one whose write failed
C35_Witness ==
    /\ combined_messages.returned
    /\ Len(combined_messages.messages) = 2
    /\ Len(Rows(combined_messages.chat_id)) = 1
    /\ CacheIndex(conversation_cache, combined_messages.chat_id) # 0
    /\ Session(combined_messages.chat_id).messages = combined_messages.messages


\* the messages are in the order of their timestamps, and in that of their
\* saving (the ids of the model count the save_message calls)
InSaveOrder(messages_) ==
    \A j \in 1..Len(messages_), k \in 1..Len(messages_) :
        j < k => /\ messages_[j].timestamp <= messages_[k].timestamp
                 /\ messages_[j].id < messages_[k].id

\* C36: the list that get_chat_history returns, which is the list it stores
\* in the cache, holds the persisted messages and those whose write failed in
\* non-decreasing order of timestamp, the order in which they were saved.
C36_MergedInTimeOrder ==
    /\ combined_messages.returned => InSaveOrder(combined_messages.messages)
    /\ \A k \in 1..Len(conversation_cache) : InSaveOrder(conversation_cache[k].messages)


\* the step makes a session for a chat that had none, or sets the
\* last_message_time of a session to another time
Activity ==
    \E k \in 1..Len(conversation_cache') :
        LET chat_id == conversation_cache'[k].chat_id
        IN  \/ CacheIndex(conversation_cache, chat_id) = 0
            \/ Session(chat_id).last_message_time # conversation_cache'[k].last_message_time

\* C37: reading the history is no activity: a get_chat_history call makes no
\* cache entry for a chat that has none and leaves the last_message_time of a
\* session as it was; only a save_message call creates a session or sets its
\* idle clock.
C37_ReadIsNotActivity ==
    /\ [][reads' # reads => ~Activity]_vars
    /\ [][Activity => Len(saved') > Len(saved)]_vars


-----------------------------------------------------------------------------
(* check_inactive_chats: when a session leaves the cache, under SpecSweep *)

\* the sweeper is in the pass over the first session of the snapshot and
\* takes a step
PassStep ==
    /\ swPc \in {"scanning", "awaiting"} /\ snapshot # <<>>
    /\ (snapshot' # snapshot \/ swPc' # swPc)

\* C38: in a tick, an idle session whose rows were fetched without an error
\* leaves the cache in that tick: at once when no recipient is found, and
\* when the awaited summary is back otherwise, whether the summary is an error
\* text or the one send_email call fails; the email is not sent again.  When
\* the query raises, the pass leaves the cache as it is, and every session of
\* the cache is in the snapshot of the next tick.
C38_RemovedOnceFetched ==
    /\ [][(PassStep /\ swPc = "scanning"
            /\ Idle(Session(Head(snapshot)).last_message_time, current_time))
           => \/ /\ event' = "error_processing"
                 /\ conversation_cache' = conversation_cache
                 /\ snapshot' = Tail(snapshot) /\ swPc' = "scanning"
              \/ /\ event' = "summarizing" /\ swPc' = "awaiting"
                 /\ conversation_cache' = conversation_cache
                 /\ snapshot' = snapshot
              \/ /\ event' = "no_recipient" /\ swPc' = "scanning"
                 /\ CacheIndex(conversation_cache', Head(snapshot)) = 0
                 /\ snapshot' = Tail(snapshot)
                 /\ sent' = sent]_vars
    /\ [][(PassStep /\ swPc = "awaiting")
           => /\ CacheIndex(conversation_cache', Head(snapshot)) = 0
              /\ snapshot' = Tail(snapshot) /\ swPc' = "scanning"
              /\ Len(sent') = Len(sent) + 1]_vars
    /\ [][(swPc = "sleeping" /\ swPc' = "scanning")
           => \A k \in 1..Len(conversation_cache) :
                  \E j \in 1..Len(snapshot') : snapshot'[j] = conversation_cache[k].chat_id]_vars

\* the one email for a session could not be sent, and the session is gone
C38_Witness ==
    /\ event = "error_sending"
    /\ sent # <<>>
    /\ CacheIndex(conversation_cache, sent[Len(sent)].chat_id) = 0
    /\ Cardinality({k \in 1..Len(sent) : sent[k].chat_id = sent[Len(sent)].chat_id}) = 1


-----------------------------------------------------------------------------
(* main.py: the bound a /chat request runs with, under SpecChat *)

\* C39: the run of every /chat request has the request's own bound: the
\* max_iterations it gives, or the default of 10 when it gives null or 0;
\* what earlier requests sent plays no part in it.
C39_OwnBound ==
    serving # 0 => max_iterations = SoloBound(serving)

====
